---------------------------- MODULE Spec2Model ----------------------------
(***************************************************************************)
(* SecureVault backend (ghassenk/SecVaultDemo): the token unit (jwt.py),   *)
(* the authenticated-encryption unit (encryption.py) and the request       *)
(* handlers of api/auth.py that use them.                                  *)
(*                                                                         *)
(* Third-party primitives are modelled as ideal: HMAC-SHA256 signatures    *)
(* verify exactly for the key and message they were made with, HKDF is     *)
(* injective in (key material, info), AES-GCM accepts exactly the          *)
(* (key, nonce, ciphertext, tag) combinations it produced.  Everything     *)
(* the repository's own code does around them (claims, clock arithmetic,   *)
(* type tags, base64 and UTF-8 conversion, exception handling) is          *)
(* computed as the code computes it.                                       *)
(***************************************************************************)
EXTENDS Integers, Sequences, FiniteSets, TLC

VARIABLES
    clock,      \* wall clock, in ticks of 1/TicksPerSecond second
    users,      \* users table: id -> row
    issued,     \* every token the API has returned so far (tokens are not stored by the code)
    used,       \* tokens already spent: refresh tokens POST /auth/refresh accepted, access
                \* tokens that POST /auth/logout or /auth/change-password answered 200 to
    resp,       \* the last HTTP response
    jwt_in,     \* token unit called directly: the token string given
    jwt_out,    \* token unit called directly: function applied and its outcome
    enc_log,    \* encryption unit called directly: every encrypt call so far
    dec_in,     \* encryption unit called directly: arguments of the last decrypt call
    dec_out,    \* encryption unit called directly: outcome of the last decrypt call
    pw_log,     \* password unit called directly: every hash_password call so far
    pw_in,      \* password unit called directly: arguments of the last call
    pw_out,     \* password unit called directly: function applied and its outcome
    login_req,  \* sign-in on a populated table: the last request and the calls it made
    cfg_env,    \* start-up: the values the environment gives for the settings fields
    cfg_cache,  \* start-up: what lru_cache holds for get_settings
    cfg_proc,   \* start-up: the process (not started, running, failed) and what it has done
    cfg_out,    \* start-up: outcome of the last get_settings() call
    reg_flight, \* concurrent registration: requests past the e-mail lookup, not yet committed
    reg_last,   \* concurrent registration: the request that took the last step
    secrets,    \* secrets table: id -> row
    vault_req,  \* secrets API: the last request
    vault_resp, \* secrets API: the last response
    vault_content,  \* secrets API: per secret, the content of the last create or update that stored one
    vault_gone  \* secrets API: the ids of the rows that were deleted

vars ==
    <<clock, users, issued, used, resp, jwt_in, jwt_out, enc_log, dec_in, dec_out,
      pw_log, pw_in, pw_out, login_req, cfg_env, cfg_cache, cfg_proc, cfg_out,
      reg_flight, reg_last, secrets, vault_req, vault_resp, vault_content, vault_gone>>

authVars == <<clock, users, issued, used, resp>>
jwtVars == <<jwt_in, jwt_out>>
cryptoVars == <<enc_log, dec_in, dec_out>>
pwVars == <<pw_log, pw_in, pw_out>>
cfgVars == <<cfg_env, cfg_cache, cfg_proc, cfg_out>>
regVars == <<reg_flight, reg_last>>
vaultVars == <<secrets, vault_req, vault_resp, vault_content, vault_gone>>
\* the variables of the units specified after the first four
otherVars == <<pwVars, login_req, cfgVars, regVars, vaultVars>>

-----------------------------------------------------------------------------
(* Bounds of the model *)

\* resolution of the modelled clock: ticks per second (datetime has microseconds)
TicksPerSecond == 2
\* number of token pairs the API hands out in one run
MaxPairs == 2

-----------------------------------------------------------------------------
(* Configuration: app/core/config.py *)

SecondsPerMinute == 60
SecondsPerDay == 86400

settings ==
    [ jwt_secret_key |-> "jwt-secret-key-of-at-least-32-chars",
      jwt_algorithm |-> "HS256",
      access_token_expire_minutes |-> 15,
      refresh_token_expire_days |-> 7,
      encryption_master_key |-> [k \in 1..32 |-> 107],    \* "kkkk...", 32 characters
      argon2_time_cost |-> 3,
      argon2_memory_cost |-> 65536,
      argon2_parallelism |-> 4 ]

\* timedelta(minutes=...), timedelta(days=...) in seconds
AccessTTLSeconds == settings.access_token_expire_minutes * SecondsPerMinute
RefreshTTLSeconds == settings.refresh_token_expire_days * SecondsPerDay

\* int(dt.timestamp()): whole seconds, fraction dropped
timestamp_int(t) == t \div TicksPerSecond

\* The instants at which the model looks at the clock (ticks): around the
\* issue time 0 and around both expiry boundaries of a token issued at 0.
ClockSeconds ==
    { 0,
      AccessTTLSeconds - 1, AccessTTLSeconds, AccessTTLSeconds + 1,
      RefreshTTLSeconds - 1, RefreshTTLSeconds + 1 }
ClockPoints ==
    { s * TicksPerSecond : s \in ClockSeconds } \cup { 1 }

-----------------------------------------------------------------------------
(* JSON values of a JWT payload.  t is the JSON type; i carries a number,  *)
(* s a string.  "absent" stands for a key the payload does not have.       *)

JInt(n) == [t |-> "int", i |-> n, s |-> ""]
JStr(x) == [t |-> "str", i |-> 0, s |-> x]
JNumStr(n) == [t |-> "numstr", i |-> n, s |-> ""]   \* a string of decimal digits
JNull == [t |-> "null", i |-> 0, s |-> ""]
JAbsent == [t |-> "absent", i |-> 0, s |-> ""]

(* python-jose.  jws.sign: HMAC over header and payload, kept symbolically *)
HMAC(key, alg, claims) == [key |-> key, alg |-> alg, msg |-> claims]

\* jwt.encode(payload, key, algorithm)
jwt_encode(payload, key, algorithm) ==
    [alg |-> algorithm, claims |-> payload, sig |-> HMAC(key, algorithm, payload)]

\* a string that is not three base64url segments
MalformedToken ==
    [alg |-> "malformed", claims |-> [sub |-> JAbsent, iat |-> JAbsent, exp |-> JAbsent, type |-> JAbsent],
     sig |-> HMAC("", "malformed", [sub |-> JAbsent, iat |-> JAbsent, exp |-> JAbsent, type |-> JAbsent])]

\* int(x) as python-jose applies it to iat and exp: "ok", or the exception raised
PyInt(v) ==
    CASE v.t = "int" -> "ok"
      [] v.t = "numstr" -> "ok"
      [] v.t = "str" -> "ValueError"
      [] OTHER -> "TypeError"        \* int(None)

\* jwt.decode(token, key, algorithms=[alg]) at time now (ticks):
\* "ok" with the claims, "JWTError", or another exception that jose lets through
jwt_decode(token, key, algorithms, now) ==
    LET c == token.claims IN
    IF token.alg = "malformed" THEN [kind |-> "JWTError", claims |-> c]
    ELSE IF token.alg \notin algorithms THEN [kind |-> "JWTError", claims |-> c]
    ELSE IF token.sig # HMAC(key, token.alg, c) THEN [kind |-> "JWTError", claims |-> c]
    \* _validate_iat
    ELSE IF c.iat.t # "absent" /\ PyInt(c.iat) = "ValueError" THEN [kind |-> "JWTError", claims |-> c]
    ELSE IF c.iat.t # "absent" /\ PyInt(c.iat) = "TypeError" THEN [kind |-> "TypeError", claims |-> c]
    \* _validate_exp: exp < now raises ExpiredSignatureError, now in whole seconds
    ELSE IF c.exp.t # "absent" /\ PyInt(c.exp) = "ValueError" THEN [kind |-> "JWTError", claims |-> c]
    ELSE IF c.exp.t # "absent" /\ PyInt(c.exp) = "TypeError" THEN [kind |-> "TypeError", claims |-> c]
    ELSE IF c.exp.t # "absent" /\ c.exp.i < timestamp_int(now) THEN [kind |-> "JWTError", claims |-> c]
    \* _validate_sub
    ELSE IF c.sub.t \notin {"absent", "str", "numstr"} THEN [kind |-> "JWTError", claims |-> c]
    ELSE [kind |-> "ok", claims |-> c]

(* pydantic, the TokenPayload model of app/schemas/auth.py.  A str field    *)
(* takes only a string; an int field also takes a string of digits.        *)
IsPydStr(v) == v.t \in {"str", "numstr"}
IsPydInt(v) == v.t \in {"int", "numstr"}

TokenPayloadValid(c) ==
    IsPydStr(c.sub) /\ IsPydInt(c.exp) /\ IsPydInt(c.iat) /\ IsPydStr(c.type)

TokenPayload(c) ==
    [sub |-> c.sub.s, exp |-> c.exp.i, iat |-> c.iat.i, type |-> c.type.s]

NoPayload == [sub |-> "", exp |-> 0, iat |-> 0, type |-> ""]

-----------------------------------------------------------------------------
(* app/core/jwt.py *)

\* variant: the access lifetime in minutes taken as hours
access_token_claims_minutes_as_hours(cfg, user_id, now) ==
    LET expire == now + cfg.access_token_expire_minutes * 3600 * TicksPerSecond
    IN [ sub |-> JStr(user_id),
         iat |-> JInt(timestamp_int(now)),
         exp |-> JInt(timestamp_int(expire)),
         type |-> JStr("access") ]

\* the payload create_access_token signs when the settings object holds cfg:
\* expire = now + timedelta(minutes=settings.access_token_expire_minutes)
access_token_claims(cfg, user_id, now) ==
    LET expire == now + cfg.access_token_expire_minutes * SecondsPerMinute * TicksPerSecond
    IN [ sub |-> JStr(user_id),
         iat |-> JInt(timestamp_int(now)),
         exp |-> JInt(timestamp_int(expire)),
         type |-> JStr("access") ]

\* the payload create_refresh_token signs when the settings object holds cfg:
\* expire = now + timedelta(days=settings.refresh_token_expire_days)
refresh_token_claims(cfg, user_id, now) ==
    LET expire == now + cfg.refresh_token_expire_days * SecondsPerDay * TicksPerSecond
    IN [ sub |-> JStr(user_id),
         iat |-> JInt(timestamp_int(now)),
         exp |-> JInt(timestamp_int(expire)),
         type |-> JStr("refresh") ]

\* variant: the lifetime in minutes taken as seconds
create_access_token_minutes_as_seconds(user_id, now) ==
    LET expire == now + settings.access_token_expire_minutes * TicksPerSecond
        payload == [ sub |-> JStr(user_id),
                     iat |-> JInt(timestamp_int(now)),
                     exp |-> JInt(timestamp_int(expire)),
                     type |-> JStr("access") ]
    IN jwt_encode(payload, settings.jwt_secret_key, settings.jwt_algorithm)

\* create_access_token(user_id), the clock read as now
create_access_token(user_id, now) ==
    jwt_encode(access_token_claims(settings, user_id, now),
               settings.jwt_secret_key, settings.jwt_algorithm)

\* variant: a "jti" claim that is different for every call
create_refresh_token_with_jti(user_id, now) ==
    LET expire == now + RefreshTTLSeconds * TicksPerSecond
        payload == [ sub |-> JStr(user_id),
                     iat |-> JInt(timestamp_int(now)),
                     exp |-> JInt(timestamp_int(expire)),
                     type |-> JStr("refresh"),
                     jti |-> JInt(now) ]
    IN jwt_encode(payload, settings.jwt_secret_key, settings.jwt_algorithm)

\* variant: the lifetime in days taken as hours
create_refresh_token_days_as_hours(user_id, now) ==
    LET expire == now + settings.refresh_token_expire_days * 3600 * TicksPerSecond
        payload == [ sub |-> JStr(user_id),
                     iat |-> JInt(timestamp_int(now)),
                     exp |-> JInt(timestamp_int(expire)),
                     type |-> JStr("refresh") ]
    IN jwt_encode(payload, settings.jwt_secret_key, settings.jwt_algorithm)

\* create_refresh_token(user_id), the clock read as now
create_refresh_token(user_id, now) ==
    jwt_encode(refresh_token_claims(settings, user_id, now),
               settings.jwt_secret_key, settings.jwt_algorithm)

\* create_tokens(user_id): each of the two tokens reads the clock for itself
create_tokens(user_id, now1, now2) ==
    <<create_access_token(user_id, now1), create_refresh_token(user_id, now2)>>

\* decode_token after jwt.decode returned or raised d: kind "ok" (a
\* TokenPayload), "none" (None) or "raise" (an exception reaches the caller)
decoded_payload(d) ==
    IF d.kind = "JWTError" THEN [kind |-> "none", exc |-> "", payload |-> NoPayload]
    ELSE IF d.kind # "ok" THEN [kind |-> "raise", exc |-> d.kind, payload |-> NoPayload]
    ELSE IF ~TokenPayloadValid(d.claims)
         THEN [kind |-> "raise", exc |-> "ValidationError", payload |-> NoPayload]
    ELSE [kind |-> "ok", exc |-> "", payload |-> TokenPayload(d.claims)]

\* decode_token(token), the clock read as now
decode_token(token, now) ==
    decoded_payload(jwt_decode(token, settings.jwt_secret_key, {settings.jwt_algorithm}, now))

\* "if payload is None or payload.type != ...: return None" of the two
\* verify functions
payload_of_type(payload, token_type) ==
    IF payload.kind = "raise" THEN payload
    ELSE IF payload.kind = "none" \/ payload.payload.type # token_type
         THEN [kind |-> "none", exc |-> "", payload |-> NoPayload]
    ELSE payload

verify_access_token(token, now) == payload_of_type(decode_token(token, now), "access")

\* variant: no check of the type claim
verify_refresh_token_any_type(token, now) ==
    LET payload == decode_token(token, now) IN
    IF payload.kind = "raise" THEN payload
    ELSE IF payload.kind = "none"
         THEN [kind |-> "none", exc |-> "", payload |-> NoPayload]
    ELSE payload

\* variant: a refresh token is good for one use (a server-side record of spent tokens)
verify_refresh_token_single_use(token, now) ==
    LET payload == decode_token(token, now) IN
    IF payload.kind = "raise" THEN payload
    ELSE IF payload.kind = "none" \/ payload.payload.type # "refresh" \/ token \in used
         THEN [kind |-> "none", exc |-> "", payload |-> NoPayload]
    ELSE payload

verify_refresh_token(token, now) == payload_of_type(decode_token(token, now), "refresh")


-----------------------------------------------------------------------------
(* app/core/password.py.  Argon2id is kept symbolic: the digest is         *)
(* determined by password, salt and cost parameters, and by nothing else.  *)
(* A credential string is kept by its parts: form says whether the string  *)
(* is an encoded hash ("phc"), has the header of one but does not decode   *)
(* ("garbled"), or holds a character outside ASCII ("non-ascii").          *)

Argon2(password, salt, t, m, p) == [pw |-> password, salt |-> salt, t |-> t, m |-> m, p |-> p]

\* the headers PasswordHasher.verify looks up in the first 9 characters
Argon2Headers == { "argon2i", "argon2d", "argon2id" }

\* PasswordHasher.hash under cost parameters (t, m, p)
PasswordHasher_hash(password, salt, t, m, p) ==
    [ form |-> "phc", alg |-> "argon2id", t |-> t, m |-> m, p |-> p,
      salt |-> salt, digest |-> Argon2(password, salt, t, m, p) ]

\* variant: the digest made from the salt and the cost parameters only
hash_password_ignoring_password(password, salt) ==
    PasswordHasher_hash("", salt, settings.argon2_time_cost,
                        settings.argon2_memory_cost, settings.argon2_parallelism)

\* hash_password(password); salt is what the hasher drew from os.urandom
hash_password(password, salt) ==
    PasswordHasher_hash(password, salt, settings.argon2_time_cost,
                        settings.argon2_memory_cost, settings.argon2_parallelism)

\* PasswordHasher.verify(hash, password): "" when it returns True, else the
\* exception it raises.  The hash is encoded to ASCII first, then its header
\* is looked up, then argon2_verify decodes it and compares.
PasswordHasher_verify(hash, password) ==
    IF hash.form = "non-ascii" THEN "UnicodeEncodeError"
    ELSE IF hash.alg \notin Argon2Headers THEN "InvalidHashError"
    ELSE IF hash.form # "phc" THEN "InvalidHashError"
    ELSE IF hash.digest = Argon2(password, hash.salt, hash.t, hash.m, hash.p) THEN ""
    ELSE "VerifyMismatchError"

\* the exception classes that "except (VerificationError, InvalidHashError)" catches
IsVerificationError(exc) ==
    exc \in { "VerificationError", "VerifyMismatchError", "InvalidHashError" }

\* verify_password(password, password_hash): the value returned, or the
\* exception that reaches the caller
verify_password(password, password_hash) ==
    LET exc == PasswordHasher_verify(password_hash, password) IN
    IF exc = "" THEN [kind |-> "return", exc |-> "", value |-> TRUE]
    ELSE IF IsVerificationError(exc) THEN [kind |-> "return", exc |-> "", value |-> FALSE]
    ELSE [kind |-> "raise", exc |-> exc, value |-> FALSE]

\* check_needs_rehash(password_hash), for a hash that parses
check_needs_rehash(password_hash) ==
    \/ password_hash.t # settings.argon2_time_cost
    \/ password_hash.m # settings.argon2_memory_cost
    \/ password_hash.p # settings.argon2_parallelism

-----------------------------------------------------------------------------
(* Requests the model sends *)

\* e-mail addresses as sequences of character codes: "A@x", "a@x"
RawEmails == { <<65, 64, 120>>, <<97, 64, 120>> }
\* passwords that pass validate_password_strength
Passwords == { "Correct-Horse-1", "Battery-Staple-2" }
\* salts the password hasher may draw
Salts == { "salt1" }
\* user ids (uuid4 strings)
UserIds == { "u1", "u2" }

\* str.lower() and str.strip() on character codes
Lower(c) == IF c >= 65 /\ c <= 90 THEN c + 32 ELSE c
RECURSIVE Strip(_)
Strip(v) ==
    IF v = <<>> THEN v
    ELSE IF Head(v) = 32 THEN Strip(Tail(v))
    ELSE IF v[Len(v)] = 32 THEN Strip(SubSeq(v, 1, Len(v) - 1))
    ELSE v

\* variant: the address stripped but kept in the case it was typed in
normalize_email_keeping_case(v) == Strip(v)

\* UserBase.normalize_email / UserLogin.normalize_email (schemas/user.py)
normalize_email(v) == Strip([k \in 1..Len(v) |-> Lower(v[k])])

\* no Authorization header (HTTPBearer(auto_error=False) gives None)
NoCredentials ==
    [alg |-> "no-credentials", claims |-> [sub |-> JAbsent, iat |-> JAbsent, exp |-> JAbsent, type |-> JAbsent],
     sig |-> HMAC("", "no-credentials", [sub |-> JAbsent, iat |-> JAbsent, exp |-> JAbsent, type |-> JAbsent])]

\* tokens made without the signing key: an access payload signed with another
\* key, a refresh payload with "alg": "none", and a string that is no JWT
ForgedClaims(u, type, now) ==
    [ sub |-> JStr(u), iat |-> JInt(timestamp_int(now)),
      exp |-> JInt(timestamp_int(now) + RefreshTTLSeconds), type |-> JStr(type) ]
ForgedTokens ==
    { jwt_encode(ForgedClaims("u1", "access", 0), "attacker-key", "HS256"),
      jwt_encode(ForgedClaims("u1", "refresh", 0), settings.jwt_secret_key, "none"),
      MalformedToken }

\* the tokens a client can present: what the API returned so far, and forgeries
IssuedTokens == { e.token : e \in issued }
Presentable == IssuedTokens \cup ForgedTokens

-----------------------------------------------------------------------------
(* Database rows and HTTP responses *)

NoTime == -1

UserRow(email, password_hash) ==
    [ email |-> email, password_hash |-> password_hash,
      is_active |-> TRUE, is_verified |-> FALSE, last_login_at |-> NoTime ]

\* select(User).where(User.email == email): the ids of the matching rows
UsersByEmail(email) == { id \in DOMAIN users : users[id].email = email }

\* the id a new row gets from uuid4: any id not in use (the first, by symmetry)
NewUserId == IF "u1" \notin DOMAIN users THEN "u1" ELSE "u2"

Response(ep, status, detail, req, userid) ==
    [ ep |-> ep, status |-> status, detail |-> detail,
      req |-> req,                  \* the token the request carried
      reuse |-> req \in used,       \* it had been spent before
      user |-> userid ]             \* the user the handler acted as ("" if none)

NoResponse ==
    [ ep |-> "", status |-> 0, detail |-> "", req |-> NoCredentials, reuse |-> FALSE,
      user |-> "" ]

\* FastAPI's answer when the handler raises something that is no HTTPException
\* (global_exception_handler in app/main.py, debug off)
InternalError(ep, req) == Response(ep, 500, "An internal error occurred", req, "")

\* the model stops handing out tokens after MaxPairs pairs
WithinBound(entries) == Cardinality(issued \cup entries) <= 2 * MaxPairs

IssuedEntries(userid, pair, now1, now2) ==
    { [token |-> pair[1], fn |-> "access", sub |-> userid, now |-> now1],
      [token |-> pair[2], fn |-> "refresh", sub |-> userid, now |-> now2] }


-----------------------------------------------------------------------------
(* app/core/deps.py *)

\* variant: no check of is_active
get_current_user_ignoring_is_active(credentials) ==
    LET token_payload == verify_access_token(credentials, clock) IN
    IF credentials = NoCredentials
    THEN [status |-> 401, detail |-> "Authentication required", user |-> ""]
    ELSE IF token_payload.kind = "raise"
    THEN [status |-> 500, detail |-> "An internal error occurred", user |-> ""]
    ELSE IF token_payload.kind = "none"
    THEN [status |-> 401, detail |-> "Invalid or expired token", user |-> ""]
    ELSE IF token_payload.payload.sub \notin DOMAIN users
    THEN [status |-> 401, detail |-> "User not found", user |-> ""]
    ELSE [status |-> 200, detail |-> "", user |-> token_payload.payload.sub]

\* get_current_user once verify_access_token gave token_payload: status 200
\* and the user's id, or the HTTPException raised (500: verify_access_token
\* itself raised)
user_of_payload(credentials, token_payload) ==
    IF credentials = NoCredentials
    THEN [status |-> 401, detail |-> "Authentication required", user |-> ""]
    ELSE IF token_payload.kind = "raise"
    THEN [status |-> 500, detail |-> "An internal error occurred", user |-> ""]
    ELSE IF token_payload.kind = "none"
    THEN [status |-> 401, detail |-> "Invalid or expired token", user |-> ""]
    ELSE IF token_payload.payload.sub \notin DOMAIN users
    THEN [status |-> 401, detail |-> "User not found", user |-> ""]
    ELSE IF ~users[token_payload.payload.sub].is_active
    THEN [status |-> 403, detail |-> "Account is deactivated", user |-> ""]
    ELSE [status |-> 200, detail |-> "", user |-> token_payload.payload.sub]

\* get_current_user(credentials, db)
get_current_user(credentials) ==
    user_of_payload(credentials, verify_access_token(credentials, clock))

-----------------------------------------------------------------------------
(* app/api/auth.py: one action per endpoint *)

\* POST /auth/register
register(email_raw, password, salt) ==
    LET email == normalize_email(email_raw) IN
    /\ IF UsersByEmail(email) # {}
       THEN /\ resp' = Response("register", 400,
                                "Registration failed. Please check your information.",
                                NoCredentials, "")
            /\ UNCHANGED users
       ELSE /\ DOMAIN users # UserIds
            /\ users' = [id \in DOMAIN users \cup {NewUserId} |->
                            IF id = NewUserId THEN UserRow(email, hash_password(password, salt))
                            ELSE users[id]]
            /\ resp' = Response("register", 201, "", NoCredentials, NewUserId)
    /\ UNCHANGED <<clock, issued, used>>

\* auth_error of login: one HTTPException, raised on every failing path
auth_error == Response("login", 401, "Invalid email or password", NoCredentials, "")

\* variant: the hash is brought up to the current parameters before the
\* password is verified
login_steps_rehash_first(email_raw, password, salt) ==
    LET email == normalize_email(email_raw)
        found == UsersByEmail(email)
        id == CHOOSE i \in found : TRUE
    IN
    IF found = {} THEN
        [resp |-> auth_error, users |-> users, tokens_for |-> "", calls |-> <<>>]
    ELSE IF verify_password(password, users[id].password_hash).kind = "raise" THEN
        [resp |-> InternalError("login", NoCredentials), users |-> users, tokens_for |-> "",
         calls |-> <<"verify_password">>]
    ELSE IF ~verify_password(password, users[id].password_hash).value THEN
        [resp |-> auth_error,
         users |-> IF check_needs_rehash(users[id].password_hash)
                   THEN [users EXCEPT ![id].password_hash = hash_password(password, salt)]
                   ELSE users,
         tokens_for |-> "",
         calls |-> <<"check_needs_rehash", "verify_password">>]
    ELSE IF ~users[id].is_active THEN
        [resp |-> auth_error, users |-> users, tokens_for |-> "",
         calls |-> <<"verify_password">>]
    ELSE
        LET needs == check_needs_rehash(users[id].password_hash)
            rehashed == IF needs THEN hash_password(password, salt)
                        ELSE users[id].password_hash
        IN
        [resp |-> Response("login", 200, "", NoCredentials, id),
         users |-> [users EXCEPT ![id].password_hash = rehashed,
                                 ![id].last_login_at = clock],
         tokens_for |-> id,
         calls |-> <<"verify_password", "check_needs_rehash">>
                   \o (IF needs THEN <<"hash_password">> ELSE <<>>)
                   \o <<"create_tokens">>]

\* variant: an answer of its own for an e-mail address that matches no user
login_steps_names_unknown_user(email_raw, password, salt) ==
    LET email == normalize_email(email_raw)
        found == UsersByEmail(email)
        id == CHOOSE i \in found : TRUE
    IN
    IF found = {} THEN
        [resp |-> Response("login", 404, "User not found", NoCredentials, ""), users |-> users, tokens_for |-> "", calls |-> <<>>]
    ELSE IF verify_password(password, users[id].password_hash).kind = "raise" THEN
        [resp |-> InternalError("login", NoCredentials), users |-> users, tokens_for |-> "",
         calls |-> <<"verify_password">>]
    ELSE IF ~verify_password(password, users[id].password_hash).value THEN
        [resp |-> auth_error, users |-> users, tokens_for |-> "",
         calls |-> <<"verify_password">>]
    ELSE IF ~users[id].is_active THEN
        [resp |-> auth_error, users |-> users, tokens_for |-> "",
         calls |-> <<"verify_password">>]
    ELSE
        LET needs == check_needs_rehash(users[id].password_hash)
            rehashed == IF needs THEN hash_password(password, salt)
                        ELSE users[id].password_hash
        IN
        [resp |-> Response("login", 200, "", NoCredentials, id),
         users |-> [users EXCEPT ![id].password_hash = rehashed,
                                 ![id].last_login_at = clock],
         tokens_for |-> id,
         calls |-> <<"verify_password", "check_needs_rehash">>
                   \o (IF needs THEN <<"hash_password">> ELSE <<>>)
                   \o <<"create_tokens">>]

\* variant: last_login_at is written before the password is verified
login_steps_stamping_every_attempt(email_raw, password, salt) ==
    LET email == normalize_email(email_raw)
        found == UsersByEmail(email)
        id == CHOOSE i \in found : TRUE
    IN
    IF found = {} THEN
        [resp |-> auth_error, users |-> users, tokens_for |-> "", calls |-> <<>>]
    ELSE IF verify_password(password, users[id].password_hash).kind = "raise" THEN
        [resp |-> InternalError("login", NoCredentials), users |-> users, tokens_for |-> "",
         calls |-> <<"verify_password">>]
    ELSE IF ~verify_password(password, users[id].password_hash).value THEN
        [resp |-> auth_error, users |-> [users EXCEPT ![id].last_login_at = clock],
         tokens_for |-> "",
         calls |-> <<"verify_password">>]
    ELSE IF ~users[id].is_active THEN
        [resp |-> auth_error, users |-> users, tokens_for |-> "",
         calls |-> <<"verify_password">>]
    ELSE
        LET needs == check_needs_rehash(users[id].password_hash)
            rehashed == IF needs THEN hash_password(password, salt)
                        ELSE users[id].password_hash
        IN
        [resp |-> Response("login", 200, "", NoCredentials, id),
         users |-> [users EXCEPT ![id].password_hash = rehashed,
                                 ![id].last_login_at = clock],
         tokens_for |-> id,
         calls |-> <<"verify_password", "check_needs_rehash">>
                   \o (IF needs THEN <<"hash_password">> ELSE <<>>)
                   \o <<"create_tokens">>]

\* POST /auth/login, the handler's path for one request: the response, the
\* users table it leaves, the user it issues tokens to ("" if none) and the
\* calls it makes into the password unit, in order
login_steps(email_raw, password, salt) ==
    LET email == normalize_email(email_raw)
        found == UsersByEmail(email)
        id == CHOOSE i \in found : TRUE
    IN
    IF found = {} THEN
        [resp |-> auth_error, users |-> users, tokens_for |-> "", calls |-> <<>>]
    ELSE IF verify_password(password, users[id].password_hash).kind = "raise" THEN
        [resp |-> InternalError("login", NoCredentials), users |-> users, tokens_for |-> "",
         calls |-> <<"verify_password">>]
    ELSE IF ~verify_password(password, users[id].password_hash).value THEN
        [resp |-> auth_error, users |-> users, tokens_for |-> "",
         calls |-> <<"verify_password">>]
    ELSE IF ~users[id].is_active THEN
        [resp |-> auth_error, users |-> users, tokens_for |-> "",
         calls |-> <<"verify_password">>]
    ELSE
        LET needs == check_needs_rehash(users[id].password_hash)
            rehashed == IF needs THEN hash_password(password, salt)
                        ELSE users[id].password_hash
        IN
        [resp |-> Response("login", 200, "", NoCredentials, id),
         users |-> [users EXCEPT ![id].password_hash = rehashed,
                                 ![id].last_login_at = clock],
         tokens_for |-> id,
         calls |-> <<"verify_password", "check_needs_rehash">>
                   \o (IF needs THEN <<"hash_password">> ELSE <<>>)
                   \o <<"create_tokens">>]

\* POST /auth/login
login(email_raw, password, salt) ==
    LET run == login_steps(email_raw, password, salt)
        entries == IF run.tokens_for = "" THEN {}
                   ELSE IssuedEntries(run.tokens_for,
                                      create_tokens(run.tokens_for, clock, clock), clock, clock)
    IN
    /\ WithinBound(entries)
    /\ resp' = run.resp
    /\ users' = run.users
    /\ issued' = issued \cup entries
    /\ UNCHANGED <<clock, used>>

\* variant: tokens are issued without looking the user up
refresh_tokens_without_user_check(refresh_token) ==
    LET payload == verify_refresh_token(refresh_token, clock) IN
    IF payload.kind = "raise" THEN
        /\ resp' = InternalError("refresh", refresh_token)
        /\ UNCHANGED <<clock, users, issued, used>>
    ELSE IF payload.kind = "none" THEN
        /\ resp' = Response("refresh", 401, "Invalid or expired refresh token", refresh_token, "")
        /\ UNCHANGED <<clock, users, issued, used>>
    ELSE
        LET id == payload.payload.sub
            pair == create_tokens(id, clock, clock)
        IN
        /\ WithinBound(IssuedEntries(id, pair, clock, clock))
        /\ issued' = issued \cup IssuedEntries(id, pair, clock, clock)
        /\ used' = used \cup {refresh_token}
        /\ resp' = Response("refresh", 200, "", refresh_token, id)
        /\ UNCHANGED <<clock, users>>

\* POST /auth/refresh
refresh_tokens(refresh_token) ==
    LET payload == verify_refresh_token(refresh_token, clock) IN
    IF payload.kind = "raise" THEN
        /\ resp' = InternalError("refresh", refresh_token)
        /\ UNCHANGED <<clock, users, issued, used>>
    ELSE IF payload.kind = "none" THEN
        /\ resp' = Response("refresh", 401, "Invalid or expired refresh token", refresh_token, "")
        /\ UNCHANGED <<clock, users, issued, used>>
    ELSE IF payload.payload.sub \notin DOMAIN users \/ ~users[payload.payload.sub].is_active THEN
        /\ resp' = Response("refresh", 401, "User not found or inactive", refresh_token, "")
        /\ UNCHANGED <<clock, users, issued, used>>
    ELSE
        LET id == payload.payload.sub
            pair == create_tokens(id, clock, clock)
        IN
        /\ WithinBound(IssuedEntries(id, pair, clock, clock))
        /\ issued' = issued \cup IssuedEntries(id, pair, clock, clock)
        /\ used' = used \cup {refresh_token}
        /\ resp' = Response("refresh", 200, "", refresh_token, id)
        /\ UNCHANGED <<clock, users>>

\* GET /auth/me
get_me(credentials) ==
    LET cu == get_current_user(credentials) IN
    /\ resp' = Response("me", cu.status, cu.detail, credentials, cu.user)
    /\ UNCHANGED <<clock, users, issued, used>>

\* variant: a new password equal to the current one is accepted
change_password_without_difference_check(credentials, current_password, new_password, salt) ==
    LET cu == get_current_user(credentials) IN
    IF cu.status # 200 THEN
        /\ resp' = Response("change-password", cu.status, cu.detail, credentials, "")
        /\ UNCHANGED <<clock, users, issued, used>>
    ELSE IF verify_password(current_password, users[cu.user].password_hash).kind = "raise" THEN
        /\ resp' = InternalError("change-password", credentials)
        /\ UNCHANGED <<clock, users, issued, used>>
    ELSE IF ~verify_password(current_password, users[cu.user].password_hash).value THEN
        /\ resp' = Response("change-password", 400, "Current password is incorrect", credentials, cu.user)
        /\ UNCHANGED <<clock, users, issued, used>>
    ELSE
        /\ users' = [users EXCEPT ![cu.user].password_hash = hash_password(new_password, salt)]
        /\ used' = used \cup {credentials}
        /\ resp' = Response("change-password", 200, "Password changed successfully", credentials, cu.user)
        /\ UNCHANGED <<clock, issued>>

\* POST /auth/change-password
change_password(credentials, current_password, new_password, salt) ==
    LET cu == get_current_user(credentials) IN
    IF cu.status # 200 THEN
        /\ resp' = Response("change-password", cu.status, cu.detail, credentials, "")
        /\ UNCHANGED <<clock, users, issued, used>>
    ELSE IF verify_password(current_password, users[cu.user].password_hash).kind = "raise" THEN
        /\ resp' = InternalError("change-password", credentials)
        /\ UNCHANGED <<clock, users, issued, used>>
    ELSE IF ~verify_password(current_password, users[cu.user].password_hash).value THEN
        /\ resp' = Response("change-password", 400, "Current password is incorrect", credentials, cu.user)
        /\ UNCHANGED <<clock, users, issued, used>>
    ELSE IF verify_password(new_password, users[cu.user].password_hash).value THEN
        /\ resp' = Response("change-password", 400,
                            "New password must be different from current password", credentials, cu.user)
        /\ UNCHANGED <<clock, users, issued, used>>
    ELSE
        /\ users' = [users EXCEPT ![cu.user].password_hash = hash_password(new_password, salt)]
        /\ used' = used \cup {credentials}
        /\ resp' = Response("change-password", 200, "Password changed successfully", credentials, cu.user)
        /\ UNCHANGED <<clock, issued>>

\* POST /auth/logout
logout(credentials) ==
    LET cu == get_current_user(credentials) IN
    /\ resp' = Response("logout", cu.status,
                        IF cu.status = 200 THEN "Successfully logged out" ELSE cu.detail,
                        credentials, cu.user)
    /\ used' = IF cu.status = 200 THEN used \cup {credentials} ELSE used
    /\ UNCHANGED <<clock, users, issued>>

\* the instants at which requests arrive: at once, within the first second,
\* after the access token's lifetime, after the refresh token's lifetime
RequestTimes ==
    { 0, 1, (AccessTTLSeconds + 1) * TicksPerSecond, (RefreshTTLSeconds + 1) * TicksPerSecond }

\* time passes between requests
Tick ==
    /\ \E t \in RequestTimes : t > clock /\ clock' = t
    /\ UNCHANGED <<users, issued, used, resp>>

-----------------------------------------------------------------------------
(* The API as a state machine *)

Register == \E e \in RawEmails, p \in Passwords, s \in Salts : register(e, p, s)
Login == \E e \in RawEmails, p \in Passwords, s \in Salts : login(e, p, s)
Refresh == \E tk \in Presentable : refresh_tokens(tk)
GetMe == \E tk \in Presentable \cup {NoCredentials} : get_me(tk)
ChangePassword ==
    \E tk \in Presentable \cup {NoCredentials}, cur \in Passwords, new \in Passwords, s \in Salts :
        change_password(tk, cur, new, s)
Logout == \E tk \in Presentable \cup {NoCredentials} : logout(tk)

-----------------------------------------------------------------------------
(* Text and bytes.  A str is a sequence of code points, bytes a sequence   *)
(* of numbers 0..255.                                                      *)

RECURSIVE Concat(_)
Concat(seqs) == IF seqs = <<>> THEN <<>> ELSE Head(seqs) \o Concat(Tail(seqs))

IsSurrogate(cp) == cp >= 55296 /\ cp <= 57343

\* the UTF-8 encoding of one code point
Utf8Bytes(cp) ==
    IF cp < 128 THEN <<cp>>
    ELSE IF cp < 2048 THEN <<192 + (cp \div 64), 128 + (cp % 64)>>
    ELSE IF cp < 65536
         THEN <<224 + (cp \div 4096), 128 + ((cp \div 64) % 64), 128 + (cp % 64)>>
    ELSE <<240 + (cp \div 262144), 128 + ((cp \div 4096) % 64),
           128 + ((cp \div 64) % 64), 128 + (cp % 64)>>

\* str.encode('utf-8'): the bytes, or UnicodeEncodeError on a lone surrogate
str_encode(text) ==
    IF \E k \in 1..Len(text) : IsSurrogate(text[k])
    THEN [kind |-> "raise", exc |-> "UnicodeEncodeError", bytes |-> <<>>]
    ELSE [kind |-> "ok", exc |-> "", bytes |-> Concat([k \in 1..Len(text) |-> Utf8Bytes(text[k])])]

IsContinuation(b) == b >= 128 /\ b <= 191

\* length of the UTF-8 sequence a lead byte opens (0: not a lead byte)
Utf8Width(b) ==
    IF b < 128 THEN 1
    ELSE IF b >= 194 /\ b <= 223 THEN 2
    ELSE IF b >= 224 /\ b <= 239 THEN 3
    ELSE IF b >= 240 /\ b <= 244 THEN 4
    ELSE 0

Utf8CodePoint(b, n) ==
    IF n = 1 THEN b[1]
    ELSE IF n = 2 THEN (b[1] - 192) * 64 + (b[2] - 128)
    ELSE IF n = 3 THEN (b[1] - 224) * 4096 + (b[2] - 128) * 64 + (b[3] - 128)
    ELSE (b[1] - 240) * 262144 + (b[2] - 128) * 4096 + (b[3] - 128) * 64 + (b[4] - 128)

\* shortest form only, no surrogates, nothing above U+10FFFF
Utf8Wellformed(cp, n) ==
    /\ n = 3 => cp >= 2048 /\ ~IsSurrogate(cp)
    /\ n = 4 => cp >= 65536 /\ cp <= 1114111

\* bytes.decode('utf-8'): the text, or UnicodeDecodeError
RECURSIVE bytes_decode(_)
bytes_decode(b) ==
    IF b = <<>> THEN [kind |-> "ok", exc |-> "", text |-> <<>>]
    ELSE
        LET n == Utf8Width(b[1])
            bad == [kind |-> "raise", exc |-> "UnicodeDecodeError", text |-> <<>>]
        IN
        IF n = 0 \/ Len(b) < n THEN bad
        ELSE IF \E k \in 2..n : ~IsContinuation(b[k]) THEN bad
        ELSE IF ~Utf8Wellformed(Utf8CodePoint(b, n), n) THEN bad
        ELSE
            LET rest == bytes_decode(SubSeq(b, n + 1, Len(b))) IN
            IF rest.kind = "raise" THEN bad
            ELSE [kind |-> "ok", exc |-> "", text |-> <<Utf8CodePoint(b, n)>> \o rest.text]

-----------------------------------------------------------------------------
(* base64 of the Python standard library (Lib/base64.py and binascii),     *)
(* text as ASCII codes.                                                    *)

\* the character of a 6-bit value, and the value of a character (64: none)
B64Char(v) ==
    IF v < 26 THEN 65 + v
    ELSE IF v < 52 THEN 71 + v
    ELSE IF v < 62 THEN v - 4
    ELSE IF v = 62 THEN 43
    ELSE 47

B64Value(c) ==
    IF c >= 65 /\ c <= 90 THEN c - 65
    ELSE IF c >= 97 /\ c <= 122 THEN c - 71
    ELSE IF c >= 48 /\ c <= 57 THEN c + 4
    ELSE IF c = 43 THEN 62
    ELSE IF c = 47 THEN 63
    ELSE 64

\* base64.b64encode(b).decode('utf-8')
RECURSIVE b64encode(_)
b64encode(b) ==
    IF b = <<>> THEN <<>>
    ELSE IF Len(b) = 1
         THEN <<B64Char(b[1] \div 4), B64Char((b[1] % 4) * 16), 61, 61>>
    ELSE IF Len(b) = 2
         THEN <<B64Char(b[1] \div 4), B64Char((b[1] % 4) * 16 + (b[2] \div 16)),
                B64Char((b[2] % 16) * 4), 61>>
    ELSE <<B64Char(b[1] \div 4), B64Char((b[1] % 4) * 16 + (b[2] \div 16)),
           B64Char((b[2] % 16) * 4 + (b[3] \div 64)), B64Char(b[3] % 64)>>
         \o b64encode(SubSeq(b, 4, Len(b)))

B64Error(msg) == [kind |-> "raise", exc |-> "binascii.Error", msg |-> msg, bytes |-> <<>>]

\* binascii.a2b_base64(s), not strict: characters outside the alphabet are
\* skipped, decoding stops at the padding that completes a quad
RECURSIVE a2b_base64(_, _, _, _, _)
a2b_base64(s, quad_pos, leftchar, pads, out) ==
    IF s = <<>> THEN
        IF quad_pos = 0 THEN [kind |-> "ok", exc |-> "", msg |-> "", bytes |-> out]
        ELSE IF quad_pos = 1
             THEN B64Error("Invalid base64-encoded string: number of data characters cannot be 1 more than a multiple of 4")
        ELSE B64Error("Incorrect padding")
    ELSE IF Head(s) = 61 THEN
        IF quad_pos >= 2 /\ quad_pos + pads + 1 >= 4
        THEN [kind |-> "ok", exc |-> "", msg |-> "", bytes |-> out]
        ELSE a2b_base64(Tail(s), quad_pos, leftchar,
                        IF quad_pos >= 2 THEN pads + 1 ELSE pads, out)
    ELSE IF B64Value(Head(s)) = 64 THEN a2b_base64(Tail(s), quad_pos, leftchar, pads, out)
    ELSE
        LET v == B64Value(Head(s)) IN
        IF quad_pos = 0 THEN a2b_base64(Tail(s), 1, v, 0, out)
        ELSE IF quad_pos = 1
             THEN a2b_base64(Tail(s), 2, v % 16, 0, Append(out, leftchar * 4 + (v \div 16)))
        ELSE IF quad_pos = 2
             THEN a2b_base64(Tail(s), 3, v % 4, 0, Append(out, leftchar * 16 + (v \div 4)))
        ELSE a2b_base64(Tail(s), 0, 0, 0, Append(out, leftchar * 64 + v))

\* base64.b64decode(s) of a str
b64decode(s) ==
    IF \E k \in 1..Len(s) : s[k] >= 128
    THEN [kind |-> "raise", exc |-> "ValueError",
          msg |-> "string argument should contain only ASCII characters", bytes |-> <<>>]
    ELSE a2b_base64(s, 0, 0, 0, <<>>)


-----------------------------------------------------------------------------
(* Key derivation and AES-GCM of the cryptography package.  HKDF is kept   *)
(* symbolic (its output is determined by key material and info, and by     *)
(* nothing else).  AES-GCM works on bytes: a keystream added to the data   *)
(* and a 16-byte tag over key, nonce and ciphertext body.  The tag         *)
(* function stands in for GHASH: it tells apart any two 12-byte nonces,    *)
(* any two keys of the model, bodies of different length and bodies that   *)
(* differ in one byte.                                                     *)

KEY_LENGTH == 32
NONCE_LENGTH == 12

\* HKDF(algorithm=SHA256, length, salt=None, info).derive(ikm)
HKDF(length, info, ikm) == [via |-> "hkdf", ikm |-> ikm, info |-> info, length |-> length]

IsHexDigit(c) == (c >= 48 /\ c <= 57) \/ (c >= 97 /\ c <= 102) \/ (c >= 65 /\ c <= 70)
HexValue(c) == IF c <= 57 THEN c - 48 ELSE IF c >= 97 THEN c - 87 ELSE c - 55

\* bytes.fromhex(text) for text of even length made of hex digits
fromhex(text) ==
    [k \in 1..(Len(text) \div 2) |-> 16 * HexValue(text[2 * k - 1]) + HexValue(text[2 * k])]

RECURSIVE Weighted(_, _)
Weighted(b, k) ==
    IF b = <<>> THEN 0 ELSE ((2 * k - 1) * Head(b) + Weighted(Tail(b), k + 1)) % 256

RECURSIVE Total(_)
Total(b) == IF b = <<>> THEN 0 ELSE (Head(b) + Total(Tail(b))) % 256

\* the part of a user key that enters the cipher
KeyNum(key) ==
    (Weighted(key.info, 1) + 7 * Weighted(key.ikm.info, 1) + 13 * Weighted(key.ikm.ikm, 1)) % 256

\* keystream byte k, from what key and nonce contribute (seed)
Keystream(seed, k) == (seed + 31 * k) % 256
KeystreamSeed(key, nonce) == (KeyNum(key) + Weighted(nonce, 1)) % 256

\* nonce bytes folded onto 12 positions
Fold(nonce, j) == Total([k \in 1..Len(nonce) |-> IF k % 12 = j % 12 THEN nonce[k] ELSE 0])

GCMTag(key, nonce, body) ==
    LET kn == KeyNum(key) IN
    [j \in 1..16 |->
        IF j <= 12 THEN (Fold(nonce, j) + kn + j) % 256
        ELSE IF j = 13 THEN (Len(nonce) + kn) % 256
        ELSE IF j = 14 THEN (Len(body) + 3 * kn) % 256
        ELSE IF j = 15 THEN (Weighted(body, 1) + 5 * kn) % 256
        ELSE (Total(body) + 7 * kn) % 256]

\* AESGCM(key).encrypt(nonce, data, None): ciphertext body and tag
AESGCM_encrypt(key, nonce, data) ==
    LET seed == KeystreamSeed(key, nonce)
        body == [k \in 1..Len(data) |-> (data[k] + Keystream(seed, k)) % 256]
    IN body \o GCMTag(key, nonce, body)

\* AESGCM(key).decrypt(nonce, data, None): the plaintext bytes, ValueError
\* for a nonce outside 8..128 bytes, InvalidTag for anything not authentic
AESGCM_decrypt(key, nonce, data) ==
    IF Len(nonce) < 8 \/ Len(nonce) > 128
    THEN [kind |-> "raise", exc |-> "ValueError", bytes |-> <<>>]
    ELSE IF Len(data) < 16
    THEN [kind |-> "raise", exc |-> "InvalidTag", bytes |-> <<>>]
    ELSE
        LET body == SubSeq(data, 1, Len(data) - 16)
            tag == SubSeq(data, Len(data) - 15, Len(data))
        IN
        IF tag # GCMTag(key, nonce, body)
        THEN [kind |-> "raise", exc |-> "InvalidTag", bytes |-> <<>>]
        ELSE LET seed == KeystreamSeed(key, nonce) IN
             [kind |-> "ok", exc |-> "",
              bytes |-> [k \in 1..Len(body) |-> (body[k] + 256 - Keystream(seed, k)) % 256]]

-----------------------------------------------------------------------------
(* app/core/encryption.py *)

\* "master-key-derivation" and "user-key:" as ASCII codes
MasterKeyContext ==
    <<109, 97, 115, 116, 101, 114, 45, 107, 101, 121, 45,
      100, 101, 114, 105, 118, 97, 116, 105, 111, 110>>
UserKeyPrefix == <<117, 115, 101, 114, 45, 107, 101, 121, 58>>

_derive_key(input_key, context) == HKDF(KEY_LENGTH, context, input_key)

_get_master_key ==
    LET key == str_encode(settings.encryption_master_key).bytes IN
    IF Len(key) = 64 /\ \A k \in 1..64 : IsHexDigit(settings.encryption_master_key[k])
    THEN [via |-> "raw", ikm |-> fromhex(settings.encryption_master_key), info |-> <<>>,
          length |-> KEY_LENGTH]
    ELSE _derive_key(key, MasterKeyContext)

\* variant: the context without the user id
derive_user_key_shared(user_id) ==
    LET master_key == _get_master_key
        context == str_encode(UserKeyPrefix).bytes
    IN _derive_key(master_key, context)

\* derive_user_key(user_id); user_id is text
derive_user_key(user_id) ==
    LET master_key == _get_master_key
        context == str_encode(UserKeyPrefix \o user_id).bytes
    IN _derive_key(master_key, context)

\* variant: plaintext.encode('ascii', errors='ignore')
encrypt_ascii(plaintext, user_id, urandom) ==
    LET key == derive_user_key(user_id)
        nonce == urandom
        data == SelectSeq(plaintext, LAMBDA cp : cp < 128)
    IN [kind |-> "ok", exc |-> "", msg |-> "",
        c |-> b64encode(AESGCM_encrypt(key, nonce, data)),
        n |-> b64encode(nonce)]

\* variant: a constant nonce in place of os.urandom
encrypt_fixed_nonce(plaintext, user_id, urandom) ==
    LET key == derive_user_key(user_id)
        nonce == [k \in 1..NONCE_LENGTH |-> 0]
        data == str_encode(plaintext)
    IN
    IF data.kind = "raise"
    THEN [kind |-> "raise", exc |-> data.exc, msg |-> "", c |-> <<>>, n |-> <<>>]
    ELSE [kind |-> "ok", exc |-> "", msg |-> "",
          c |-> b64encode(AESGCM_encrypt(key, nonce, data.bytes)),
          n |-> b64encode(nonce)]

\* encrypt(plaintext, user_id); urandom is what os.urandom(NONCE_LENGTH) returned
encrypt(plaintext, user_id, urandom) ==
    LET key == derive_user_key(user_id)
        nonce == urandom
        data == str_encode(plaintext)
    IN
    IF data.kind = "raise"
    THEN [kind |-> "raise", exc |-> data.exc, msg |-> "", c |-> <<>>, n |-> <<>>]
    ELSE [kind |-> "ok", exc |-> "", msg |-> "",
          c |-> b64encode(AESGCM_encrypt(key, nonce, data.bytes)),
          n |-> b64encode(nonce)]

DecryptionFailed ==
    [kind |-> "raise", exc |-> "ValueError",
     msg |-> "Decryption failed: data may be tampered or corrupted", text |-> <<>>]

\* variant: the keystream removed without checking the tag (a cipher mode
\* without authentication)
decrypt_unauthenticated(ciphertext_b64, nonce_b64, user_id) ==
    LET key == derive_user_key(user_id)
        ciphertext == b64decode(ciphertext_b64)
        nonce == b64decode(nonce_b64)
    IN
    IF ciphertext.kind = "raise"
    THEN [kind |-> "raise", exc |-> ciphertext.exc, msg |-> ciphertext.msg, text |-> <<>>]
    ELSE IF nonce.kind = "raise"
    THEN [kind |-> "raise", exc |-> nonce.exc, msg |-> nonce.msg, text |-> <<>>]
    ELSE IF Len(ciphertext.bytes) < 16 THEN DecryptionFailed
    ELSE
        LET seed == KeystreamSeed(key, nonce.bytes)
            body == SubSeq(ciphertext.bytes, 1, Len(ciphertext.bytes) - 16)
            plaintext == [k \in 1..Len(body) |-> (body[k] + 256 - Keystream(seed, k)) % 256]
        IN
        IF bytes_decode(plaintext).kind = "raise" THEN DecryptionFailed
        ELSE [kind |-> "ok", exc |-> "", msg |-> "", text |-> bytes_decode(plaintext).text]

\* decrypt(ciphertext_b64, nonce_b64, user_id): the text, or the exception
\* that reaches the caller.  The two b64decode calls stand before the try.
decrypt(ciphertext_b64, nonce_b64, user_id) ==
    LET key == derive_user_key(user_id)
        ciphertext == b64decode(ciphertext_b64)
        nonce == b64decode(nonce_b64)
    IN
    IF ciphertext.kind = "raise"
    THEN [kind |-> "raise", exc |-> ciphertext.exc, msg |-> ciphertext.msg, text |-> <<>>]
    ELSE IF nonce.kind = "raise"
    THEN [kind |-> "raise", exc |-> nonce.exc, msg |-> nonce.msg, text |-> <<>>]
    ELSE
        LET plaintext == AESGCM_decrypt(key, nonce.bytes, ciphertext.bytes) IN
        IF plaintext.kind = "raise" THEN DecryptionFailed
        ELSE IF bytes_decode(plaintext.bytes).kind = "raise" THEN DecryptionFailed
        ELSE [kind |-> "ok", exc |-> "", msg |-> "", text |-> bytes_decode(plaintext.bytes).text]

\* rotate_encryption(old_ciphertext_b64, old_nonce_b64, user_id)
rotate_encryption(old_ciphertext_b64, old_nonce_b64, user_id, urandom) ==
    LET plaintext == decrypt(old_ciphertext_b64, old_nonce_b64, user_id) IN
    IF plaintext.kind = "raise"
    THEN [kind |-> "raise", exc |-> plaintext.exc, msg |-> plaintext.msg, c |-> <<>>, n |-> <<>>]
    ELSE encrypt(plaintext.text, user_id, urandom)

\* the exception classes that "except ValueError" catches
IsValueError(exc) ==
    exc \in {"ValueError", "binascii.Error", "UnicodeDecodeError", "UnicodeEncodeError"}

\* app/api/secrets.py, get_secret, the decrypt step on the row's
\* (encrypted_content, nonce) for the current user
get_secret_content(encrypted_content, nonce, user_id) ==
    LET decrypted_content == decrypt(encrypted_content, nonce, user_id) IN
    IF decrypted_content.kind = "ok"
    THEN [status |-> 200, detail |-> "", content |-> decrypted_content.text]
    ELSE IF IsValueError(decrypted_content.exc)
    THEN [status |-> 500, detail |-> "Failed to decrypt secret", content |-> <<>>]
    ELSE [status |-> 500, detail |-> "An internal error occurred", content |-> <<>>]

-----------------------------------------------------------------------------
(* The token unit called directly *)

\* the instants at which a token is issued
IssueTimes == { 0, 1, AccessTTLSeconds * TicksPerSecond }

\* payloads signed with the configured key that create_* never writes
SignedWith(sub, iat, exp, type) ==
    jwt_encode([sub |-> sub, iat |-> iat, exp |-> exp, type |-> type],
               settings.jwt_secret_key, settings.jwt_algorithm)
FarExp == JInt(2 * RefreshTTLSeconds)
CraftedTokens ==
    { SignedWith(JStr("u1"), JInt(0), FarExp, JAbsent),          \* no "type"
      SignedWith(JAbsent, JInt(0), FarExp, JStr("access")),      \* no "sub"
      SignedWith(JStr("u1"), JAbsent, FarExp, JStr("access")),   \* no "iat"
      SignedWith(JStr("u1"), JInt(0), JAbsent, JStr("refresh")), \* no "exp"
      SignedWith(JStr("u1"), JNull, FarExp, JStr("access")),     \* "iat": null
      SignedWith(JStr("u1"), JInt(0), FarExp, JInt(1)),          \* "type": 1
      SignedWith(JInt(7), JInt(0), FarExp, JStr("access")),      \* "sub": 7
      SignedWith(JStr("u1"), JInt(0), JStr("soon"), JStr("access")),      \* "exp": "soon"
      SignedWith(JStr("u1"), JNumStr(0), JNumStr(2 * RefreshTTLSeconds), JStr("refresh")) }

AccessTokens == { create_access_token(u, t) : u \in UserIds, t \in IssueTimes }
RefreshTokens == { create_refresh_token(u, t) : u \in UserIds, t \in IssueTimes }
TokenInputs == AccessTokens \cup RefreshTokens \cup CraftedTokens \cup ForgedTokens

JwtOut(fn, r) ==
    [fn |-> fn, at |-> clock, kind |-> r.kind, exc |-> r.exc, payload |-> r.payload]

DecodeToken ==
    /\ jwt_out' = JwtOut("decode_token", decode_token(jwt_in, clock))
    /\ UNCHANGED <<clock, jwt_in>>

VerifyAccessToken ==
    /\ jwt_out' = JwtOut("verify_access_token", verify_access_token(jwt_in, clock))
    /\ UNCHANGED <<clock, jwt_in>>

VerifyRefreshToken ==
    /\ jwt_out' = JwtOut("verify_refresh_token", verify_refresh_token(jwt_in, clock))
    /\ UNCHANGED <<clock, jwt_in>>

JwtTick ==
    /\ \E t \in ClockPoints : t > clock /\ clock' = t
    /\ UNCHANGED <<jwt_in, jwt_out>>

-----------------------------------------------------------------------------
(* The encryption unit called directly *)

\* number of encrypt calls in one run
MaxEncrypts == 2

\* user ids as text: "u1", "u2"
KeyUserIds == { <<117, 49>>, <<117, 50>> }
\* "", "a" with an accented e, a euro sign and an emoji, a lone surrogate
Plaintexts == { <<>>, <<97, 233, 8364, 128512>>, <<55296>> }
\* what os.urandom(NONCE_LENGTH) may return
NonceDraws == { [k \in 1..NONCE_LENGTH |-> 0], [k \in 1..NONCE_LENGTH |-> (37 * k) % 256] }

LogEntry(fn, user_id, plaintext, urandom, out) ==
    [ fn |-> fn, user |-> user_id, plaintext |-> plaintext, urandom |-> urandom,
      kind |-> out.kind, exc |-> out.exc, c |-> out.c, n |-> out.n ]

NoDecIn == [c |-> <<>>, n |-> <<>>, user |-> <<>>, of |-> 0, how |-> ""]
NoDecOut ==
    [ fn |-> "", kind |-> "", exc |-> "", msg |-> "", text |-> <<>>,
      status |-> 0, detail |-> "" ]

DecOut(r) ==
    [ fn |-> "decrypt", kind |-> r.kind, exc |-> r.exc, msg |-> r.msg, text |-> r.text,
      status |-> 0, detail |-> "" ]

GetOut(in) ==
    LET r == decrypt(in.c, in.n, in.user)
        h == get_secret_content(in.c, in.n, in.user)
    IN [ fn |-> "get_secret", kind |-> r.kind, exc |-> r.exc, msg |-> r.msg,
         text |-> h.content, status |-> h.status, detail |-> h.detail ]

Encrypt ==
    \E plaintext \in Plaintexts, user_id \in KeyUserIds, urandom \in NonceDraws :
        /\ Len(enc_log) < MaxEncrypts
        /\ enc_log' = Append(enc_log, LogEntry("encrypt", user_id, plaintext, urandom,
                                               encrypt(plaintext, user_id, urandom)))
        /\ UNCHANGED <<dec_in, dec_out>>

Rotate ==
    \E k \in 1..Len(enc_log), user_id \in KeyUserIds, urandom \in NonceDraws :
        /\ Len(enc_log) < MaxEncrypts
        /\ enc_log[k].kind = "ok"
        /\ enc_log' = Append(enc_log,
               LogEntry("rotate", user_id,
                        decrypt(enc_log[k].c, enc_log[k].n, user_id).text, urandom,
                        rotate_encryption(enc_log[k].c, enc_log[k].n, user_id, urandom)))
        /\ UNCHANGED <<dec_in, dec_out>>

\* decrypt of a stored pair, by its owner or by another user
Decrypt ==
    \E k \in 1..Len(enc_log), user_id \in KeyUserIds :
        /\ enc_log[k].kind = "ok"
        /\ dec_in' = [c |-> enc_log[k].c, n |-> enc_log[k].n, user |-> user_id,
                      of |-> k, how |-> "stored"]
        /\ dec_out' = DecOut(decrypt(enc_log[k].c, enc_log[k].n, user_id))
        /\ UNCHANGED enc_log

-----------------------------------------------------------------------------
(* decrypt on altered input *)

FlipBit(c, bit) == IF (c \div (2 ^ bit)) % 2 = 1 THEN c - 2 ^ bit ELSE c + 2 ^ bit
FlipIn(text, pos, bit) == [text EXCEPT ![pos] = FlipBit(text[pos], bit)]

Other(user_id) == CHOOSE u \in KeyUserIds : u # user_id

\* the bytes AES-GCM returned for the entry
SealedBytes(e) == b64decode(e.c).bytes

\* inputs related to a stored pair e, by the way they were made
AlteredInputs(e) ==
    { [c |-> e.c, n |-> e.n, user |-> e.user, of |-> 1, how |-> "stored"],
      [c |-> e.c, n |-> e.n, user |-> Other(e.user), of |-> 1, how |-> "key"],
      [c |-> e.c, n |-> b64encode(SubSeq(e.urandom, 1, 7)), user |-> e.user, of |-> 1, how |-> "nonce-length"],
      [c |-> e.c, n |-> b64encode(SubSeq(e.urandom, 1, 8)), user |-> e.user, of |-> 1, how |-> "nonce-length"],
      [c |-> e.c, n |-> b64encode(e.urandom \o <<0>>), user |-> e.user, of |-> 1, how |-> "nonce-length"],
      [c |-> b64encode(SubSeq(SealedBytes(e), 1, 15)), n |-> e.n, user |-> e.user, of |-> 1, how |-> "tag"],
      [c |-> <<65>>, n |-> e.n, user |-> e.user, of |-> 1, how |-> "base64"],
      [c |-> e.c, n |-> SubSeq(e.n, 1, Len(e.n) - 1), user |-> e.user, of |-> 1, how |-> "base64"],
      [c |-> e.c \o <<233>>, n |-> e.n, user |-> e.user, of |-> 1, how |-> "base64"],
      [c |-> b64encode(AESGCM_encrypt(derive_user_key(e.user), e.urandom, <<255>>)),
       n |-> e.n, user |-> e.user, of |-> 1, how |-> "not-utf8"],
      [c |-> e.c \o <<61>>, n |-> e.n, user |-> e.user, of |-> 1, how |-> "respelled"],
      [c |-> e.c, n |-> e.n \o <<10>>, user |-> e.user, of |-> 1, how |-> "respelled"] }

\* the pair with one bit of the ciphertext text or of the nonce text flipped
FlippedInputs(e) ==
    { [c |-> FlipIn(e.c, pos, bit), n |-> e.n, user |-> e.user, of |-> 1, how |-> "bitflip"] :
        pos \in 1..Len(e.c), bit \in 0..7 }
    \cup
    { [c |-> e.c, n |-> FlipIn(e.n, pos, bit), user |-> e.user, of |-> 1, how |-> "bitflip"] :
        pos \in 1..Len(e.n), bit \in 0..7 }

\* decrypt(dec_in)
DecryptInput ==
    /\ dec_out' = DecOut(decrypt(dec_in.c, dec_in.n, dec_in.user))
    /\ UNCHANGED <<enc_log, dec_in>>

\* GET /secrets/{id} on a row that holds dec_in
GetSecretInput ==
    /\ dec_out' = GetOut(dec_in)
    /\ UNCHANGED <<enc_log, dec_in>>

RotOut(r) ==
    [ fn |-> "rotate", kind |-> r.kind, exc |-> r.exc, msg |-> r.msg, text |-> <<>>,
      status |-> 0, detail |-> "" ]

\* rotate_encryption(dec_in): the pair it returns is kept next to the old one
RotateInput ==
    \E urandom \in NonceDraws :
        LET r == rotate_encryption(dec_in.c, dec_in.n, dec_in.user, urandom) IN
        /\ Len(enc_log) < MaxEncrypts
        /\ dec_out' = RotOut(r)
        /\ enc_log' = IF r.kind = "ok"
                      THEN Append(enc_log, LogEntry("rotate", dec_in.user,
                               decrypt(dec_in.c, dec_in.n, dec_in.user).text, urandom, r))
                      ELSE enc_log
        /\ UNCHANGED dec_in

-----------------------------------------------------------------------------
(* The password unit called directly *)

\* number of hash_password calls in one run
MaxHashes == 2

\* salts the password hasher may draw
HasherSalts == { "salt1", "salt2" }

\* passwords given to verify_password: those of Passwords and one that
\* validate_password_strength refuses
TriedPasswords == Passwords \cup { "wrong" }

\* a string that is no encoded hash, by header and form
NotAHash(form, alg) ==
    [ form |-> form, alg |-> alg, t |-> 0, m |-> 0, p |-> 0, salt |-> "",
      digest |-> Argon2("", "", 0, 0, 0) ]

\* malformed credential strings: "", a bcrypt hash, "$argon2id$" followed by
\* text that does not decode, a text with an accented letter, and an encoded
\* Argon2id hash with an accented letter appended
MalformedCredentials ==
    { NotAHash("garbled", ""), NotAHash("garbled", "2b"), NotAHash("garbled", "argon2id"),
      NotAHash("non-ascii", ""),
      [PasswordHasher_hash("Correct-Horse-1", "salt1", settings.argon2_time_cost,
                           settings.argon2_memory_cost, settings.argon2_parallelism)
         EXCEPT !.form = "non-ascii"] }

\* hashes made while the cost parameters were lower
LegacyCredentials ==
    { PasswordHasher_hash(pw, "salt0", 2, 32768, 2) : pw \in Passwords }

HashedSoFar == { pw_log[k].h : k \in 1..Len(pw_log) }

NoPwIn == [password |-> "", hash |-> NotAHash("garbled", "")]
NoPwOut == [fn |-> "", kind |-> "", exc |-> "", value |-> FALSE]

HashPassword ==
    \E password \in Passwords, salt \in HasherSalts :
        /\ Len(pw_log) < MaxHashes
        /\ pw_log' = Append(pw_log, [password |-> password, salt |-> salt,
                                     h |-> hash_password(password, salt)])
        /\ UNCHANGED <<pw_in, pw_out>>

VerifyPassword ==
    \E password \in TriedPasswords,
       password_hash \in HashedSoFar \cup LegacyCredentials \cup MalformedCredentials :
        LET r == verify_password(password, password_hash) IN
        /\ pw_in' = [password |-> password, hash |-> password_hash]
        /\ pw_out' = [fn |-> "verify_password", kind |-> r.kind, exc |-> r.exc, value |-> r.value]
        /\ UNCHANGED pw_log

CheckNeedsRehash ==
    \E password_hash \in HashedSoFar \cup LegacyCredentials :
        /\ pw_in' = [password |-> "", hash |-> password_hash]
        /\ pw_out' = [fn |-> "check_needs_rehash", kind |-> "return", exc |-> "",
                      value |-> check_needs_rehash(password_hash)]
        /\ UNCHANGED pw_log

InitPwIdle ==
    /\ pw_log = <<>>
    /\ pw_in = NoPwIn
    /\ pw_out = NoPwOut

-----------------------------------------------------------------------------
(* Sign-in on a populated users table *)

\* "A@x", "a@x" (user u1), "b@x" (user u2), "c@x" (nobody)
LoginEmails == RawEmails \cup { <<98, 64, 120>>, <<99, 64, 120>> }

\* the rows a user registered under email may have by now: the hash made
\* under the current or under earlier cost parameters, the account active
\* or deactivated
RowsOf(email) ==
    { [UserRow(email, h) EXCEPT !.is_active = act] :
        h \in { hash_password(pw, "salt0") : pw \in Passwords } \cup LegacyCredentials,
        act \in BOOLEAN }

NoLoginReq == [email |-> <<>>, password |-> "", calls |-> <<>>]

LoginRequest ==
    \E e \in LoginEmails, pw \in TriedPasswords, s \in Salts :
        /\ login(e, pw, s)
        /\ login_req' = [email |-> e, password |-> pw, calls |-> login_steps(e, pw, s).calls]

-----------------------------------------------------------------------------
(* Start-up: app/core/config.py *)

\* number of operations on tokens, hashes and ciphertexts in one run
MaxOps == 2

\* a secret of n characters
SecretOfLength(n) == [k \in 1..n |-> 107]

\* what the environment may hold for the validated fields
Environments ==
    [ jwt_secret_key : { SecretOfLength(31), SecretOfLength(32) },
      encryption_master_key : { SecretOfLength(0), SecretOfLength(31), SecretOfLength(32) },
      access_token_expire_minutes : { 0, 1, 60, 61 },
      refresh_token_expire_days : { 0, 1, 30, 31 },
      argon2_time_cost : { 0, 1 },
      argon2_memory_cost : { 8191, 8192 },
      argon2_parallelism : { 0, 1 } ]

\* the fields whose Field(...) constraint or validator refuses the value
SettingsErrors(env) ==
    { f \in { "jwt_secret_key", "encryption_master_key" } : Len(env[f]) < 32 }
    \cup { f \in { "access_token_expire_minutes" } : ~(env[f] >= 1 /\ env[f] <= 60) }
    \cup { f \in { "refresh_token_expire_days" } : ~(env[f] >= 1 /\ env[f] <= 30) }
    \cup { f \in { "argon2_time_cost", "argon2_parallelism" } : ~(env[f] >= 1) }
    \cup { f \in { "argon2_memory_cost" } : ~(env[f] >= 8192) }

\* variant: the integer fields without their upper bounds
Settings_without_upper_bounds(env) ==
    LET errors ==
            { f \in { "jwt_secret_key", "encryption_master_key" } : Len(env[f]) < 32 }
            \cup { f \in { "access_token_expire_minutes", "refresh_token_expire_days",
                           "argon2_time_cost", "argon2_parallelism" } : env[f] < 1 }
            \cup { f \in { "argon2_memory_cost" } : env[f] < 8192 }
    IN IF errors = {} THEN [kind |-> "ok", exc |-> "", values |-> env]
       ELSE [kind |-> "raise", exc |-> "ValidationError", values |-> env]

\* Settings(): the object, or the ValidationError
Settings(env) ==
    IF SettingsErrors(env) = {} THEN [kind |-> "ok", exc |-> "", values |-> env]
    ELSE [kind |-> "raise", exc |-> "ValidationError", values |-> env]

\* lru_cache holds nothing
NoSettings == [obj |-> 0, values |-> [f \in {} |-> 0]]

\* get_settings() under lru_cache: the cached object if there is one, else a
\* new Settings(), which is cached only if construction returned
get_settings ==
    IF cfg_cache # NoSettings
    THEN [kind |-> "ok", exc |-> "", obj |-> cfg_cache.obj, cache |-> cfg_cache, made |-> 0]
    ELSE IF Settings(cfg_env).kind = "raise"
    THEN [kind |-> "raise", exc |-> Settings(cfg_env).exc, obj |-> 0, cache |-> cfg_cache, made |-> 0]
    ELSE [kind |-> "ok", exc |-> "", obj |-> cfg_proc.made + 1,
          cache |-> [obj |-> cfg_proc.made + 1, values |-> Settings(cfg_env).values],
          made |-> 1]

NoCfgOut == [kind |-> "", exc |-> "", obj |-> 0]

\* the process is started: importing app.main runs the first
\* "settings = get_settings()" at module level
StartProcess ==
    LET r == get_settings IN
    /\ cfg_proc.state = "not-started"
    /\ cfg_cache' = r.cache
    /\ cfg_out' = [kind |-> r.kind, exc |-> r.exc, obj |-> r.obj]
    /\ cfg_proc' = [cfg_proc EXCEPT !.state = IF r.kind = "ok" THEN "running" ELSE "failed",
                                    !.made = @ + r.made]
    /\ UNCHANGED cfg_env

\* any later get_settings() call of the running process
GetSettings ==
    LET r == get_settings IN
    /\ cfg_proc.state = "running"
    /\ cfg_cache' = r.cache
    /\ cfg_out' = [kind |-> r.kind, exc |-> r.exc, obj |-> r.obj]
    /\ cfg_proc' = [cfg_proc EXCEPT !.made = @ + r.made, !.calls = 1]
    /\ UNCHANGED cfg_env

\* a request makes the running process sign a token, hash a password or
\* encrypt a secret
Operate ==
    /\ cfg_proc.state = "running"
    /\ cfg_proc.ops < MaxOps
    /\ cfg_proc' = [cfg_proc EXCEPT !.ops = @ + 1]
    /\ UNCHANGED <<cfg_env, cfg_cache, cfg_out>>

InitCfgIdle ==
    /\ cfg_env = [f \in {} |-> 0]
    /\ cfg_cache = NoSettings
    /\ cfg_proc = [state |-> "not-started", made |-> 0, calls |-> 0, ops |-> 0]
    /\ cfg_out = NoCfgOut

-----------------------------------------------------------------------------
(* POST /auth/register with requests in flight.  The handler awaits the    *)
(* database twice: for the e-mail lookup and for the commit; other         *)
(* requests run in between.  The users table has a unique index on email.  *)

\* number of requests between lookup and commit at one time
MaxInFlight == 2

\* "A@x", "a@x", "B@x", "b@x"
RegisterEmails == RawEmails \cup { <<66, 64, 120>>, <<98, 64, 120>> }

NoRegLast == [email |-> <<>>, step |-> ""]

\* register up to the lookup: 400 if the normalized e-mail is taken, else
\* the request goes on to the insert
register_lookup(email_raw, password, salt) ==
    LET email == normalize_email(email_raw) IN
    /\ reg_last' = [email |-> email_raw, step |-> "lookup"]
    /\ IF UsersByEmail(email) # {}
       THEN /\ resp' = Response("register", 400,
                                "Registration failed. Please check your information.",
                                NoCredentials, "")
            /\ UNCHANGED reg_flight
       ELSE /\ Cardinality(reg_flight) < MaxInFlight
            /\ reg_flight' = reg_flight \cup
                   { [email_raw |-> email_raw, email |-> email, password |-> password, salt |-> salt] }
            /\ UNCHANGED resp
    /\ UNCHANGED <<clock, users, issued, used>>

\* register from db.add to the return: the insert is refused by the unique
\* index if the e-mail was taken in the meantime (IntegrityError, answered
\* by global_exception_handler)
register_commit(r) ==
    /\ reg_last' = [email |-> r.email_raw, step |-> "commit"]
    /\ reg_flight' = reg_flight \ {r}
    /\ IF UsersByEmail(r.email) # {}
       THEN /\ resp' = InternalError("register", NoCredentials)
            /\ UNCHANGED users
       ELSE /\ DOMAIN users # UserIds
            /\ users' = [id \in DOMAIN users \cup {NewUserId} |->
                            IF id = NewUserId
                            THEN UserRow(r.email, hash_password(r.password, r.salt))
                            ELSE users[id]]
            /\ resp' = Response("register", 201, "", NoCredentials, NewUserId)
    /\ UNCHANGED <<clock, issued, used>>

RegisterLookup ==
    \E e \in RegisterEmails, pw \in Passwords, s \in Salts : register_lookup(e, pw, s)

RegisterCommit == \E r \in reg_flight : register_commit(r)

InitRegIdle ==
    /\ reg_flight = {}
    /\ reg_last = NoRegLast

-----------------------------------------------------------------------------
(* app/api/secrets.py: one action per endpoint *)

\* the secret ids (uuid4 strings) a new row may get, and one that is in no row
SecretIds == { "s1", "s2" }
MissingSecretId == "s9"

\* Python's None in an optional field
PyNone == "<None>"

Names == { "n1" }
Descriptions == { "d1" }
\* contents: "p", and an accented e with a euro sign
Contents == { <<112>>, <<233, 8364>> }
\* content of a SecretUpdate that gives none
NoContent == <<>>

\* the user id as the text derive_user_key gets
IdText(user_id) == IF user_id = "u1" THEN <<117, 49>> ELSE <<117, 50>>

\* what the callers present: the access tokens of u1 and u2, and no header
VaultCallers ==
    { create_access_token("u1", 0), create_access_token("u2", 0), NoCredentials }

\* the fields of the response models (schemas/secret.py)
SecretResponseFields == { "id", "name", "description", "created_at", "updated_at" }
SecretWithContentFields == SecretResponseFields \cup { "content" }

\* the uuid4 a new row gets: an id no row has or had
NewSecretId == CHOOSE id \in SecretIds : id \notin DOMAIN secrets \cup vault_gone

\* a row read through SecretResponse (from_attributes): the declared fields only
SecretResponse(table, id) ==
    [ f \in SecretResponseFields |-> IF f = "id" THEN id ELSE table[id][f] ]

NoItem == [ f \in {} |-> "" ]

Body(item, items, total, page, page_size, pages, message) ==
    [ item |-> item, items |-> items, total |-> total, page |-> page,
      page_size |-> page_size, pages |-> pages, message |-> message ]
NoBody == Body(NoItem, {}, 0, 0, 0, 0, "")

VaultResponse(ep, status, detail, body) ==
    [ ep |-> ep, status |-> status, detail |-> detail, body |-> body ]

NoVaultReq ==
    [ ep |-> "", credentials |-> NoCredentials, secret_id |-> "",
      name |-> PyNone, description |-> PyNone, content |-> NoContent ]
NoVaultResp == VaultResponse("", 0, "", NoBody)

\* variant: the row is looked up by id alone
find_secret_any_owner(secret_id, user_id) ==
    IF secret_id \notin DOMAIN secrets THEN "missing" ELSE "own"

\* "Fetch secret", "Check existence", "Check ownership" of get_secret,
\* update_secret and delete_secret
find_secret(secret_id, user_id) ==
    IF secret_id \notin DOMAIN secrets THEN "missing"
    ELSE IF secrets[secret_id].user_id # user_id THEN "foreign"
    ELSE "own"

SecretNotFound(ep) == VaultResponse(ep, 404, "Secret not found", NoBody)

\* encrypt and decrypt are pure: their values on the arguments the secrets API
\* passes are tabulated once.  VaultSealed[u][content][urandom] is
\* encrypt(content, u) when os.urandom returns urandom.
VaultSealed ==
    [ user_id \in UserIds |-> [ content \in Contents |-> [ urandom \in NonceDraws |->
        encrypt(content, IdText(user_id), urandom) ] ] ]

\* every ciphertext column value with every nonce column value
VaultPairs ==
    { <<VaultSealed[u][c][d].c, VaultSealed[v][e][f].n>> :
        <<u, c, d, v, e, f>> \in UserIds \X Contents \X NonceDraws
                                  \X UserIds \X Contents \X NonceDraws }

\* VaultOpened[u][<<encrypted_content, nonce>>] is the outcome of the
\* try/except around decrypt(encrypted_content, nonce, u) in get_secret
VaultOpened ==
    [ user_id \in UserIds |-> [ pair \in VaultPairs |->
        get_secret_content(pair[1], pair[2], IdText(user_id)) ] ]

\* the answer of a route whose CurrentUser dependency raised
NotAuthenticated(ep, cu) == VaultResponse(ep, cu.status, cu.detail, NoBody)

\* POST /secrets
create_secret(credentials, secret_data, urandom) ==
    LET cu == get_current_user(credentials)
        sealed == VaultSealed[cu.user][secret_data.content][urandom]
        id == NewSecretId
        row == [ user_id |-> cu.user, name |-> secret_data.name,
                 description |-> secret_data.description,
                 encrypted_content |-> sealed.c, nonce |-> sealed.n,
                 created_at |-> clock, updated_at |-> clock ]
        table == [ i \in DOMAIN secrets \cup {id} |-> IF i = id THEN row ELSE secrets[i] ]
    IN
    /\ vault_req' = [ep |-> "create", credentials |-> credentials, secret_id |-> "",
                     name |-> secret_data.name, description |-> secret_data.description,
                     content |-> secret_data.content]
    /\ IF cu.status # 200 THEN
           /\ vault_resp' = NotAuthenticated("create", cu)
           /\ UNCHANGED <<secrets, vault_content, vault_gone>>
       ELSE IF sealed.kind = "raise" THEN
           /\ vault_resp' = VaultResponse("create", 500, "An internal error occurred", NoBody)
           /\ UNCHANGED <<secrets, vault_content, vault_gone>>
       ELSE
           /\ DOMAIN secrets \cup vault_gone # SecretIds
           /\ secrets' = table
           /\ UNCHANGED vault_gone
           /\ vault_content' = [ i \in DOMAIN table |->
                                   IF i = id THEN secret_data.content ELSE vault_content[i] ]
           /\ vault_resp' = VaultResponse("create", 201, "",
                   Body(SecretResponse(table, id), {}, 0, 0, 0, 0, ""))

\* math.ceil(total / page_size)
Ceil(total, page_size) == (total + page_size - 1) \div page_size

\* variant: the rows of every user
rows_of_all_users(user_id) == DOMAIN secrets

\* .where(Secret.user_id == current_user.id), in the count and in the fetch
rows_of_user(user_id) == { id \in DOMAIN secrets : secrets[id].user_id = user_id }

\* GET /secrets.  Rows made in one instant have one created_at, and the
\* database may return them in any order: the page is any choice of the
\* right size among the caller's rows.
list_secrets(credentials, page, page_size) ==
    LET cu == get_current_user(credentials)
        mine == rows_of_user(cu.user)
        total == Cardinality(mine)
        pages == IF total > 0 THEN Ceil(total, page_size) ELSE 1
        offset == (page - 1) * page_size
        left == IF total > offset THEN total - offset ELSE 0
        count == IF left < page_size THEN left ELSE page_size
    IN
    /\ vault_req' = [ep |-> "list", credentials |-> credentials, secret_id |-> "",
                     name |-> PyNone, description |-> PyNone, content |-> NoContent]
    /\ IF cu.status # 200 THEN vault_resp' = NotAuthenticated("list", cu)
       ELSE \E shown \in SUBSET mine :
               /\ Cardinality(shown) = count
               /\ vault_resp' = VaultResponse("list", 200, "",
                      Body(NoItem, { SecretResponse(secrets, id) : id \in shown },
                           total, page, page_size, pages, ""))
    /\ UNCHANGED <<secrets, vault_content, vault_gone>>

\* GET /secrets/{secret_id}
get_secret(credentials, secret_id) ==
    LET cu == get_current_user(credentials)
        secret == secrets[secret_id]
        opened == VaultOpened[cu.user][<<secret.encrypted_content, secret.nonce>>]
    IN
    /\ vault_req' = [ep |-> "get", credentials |-> credentials, secret_id |-> secret_id,
                     name |-> PyNone, description |-> PyNone, content |-> NoContent]
    /\ IF cu.status # 200 THEN vault_resp' = NotAuthenticated("get", cu)
       ELSE IF find_secret(secret_id, cu.user) # "own" THEN vault_resp' = SecretNotFound("get")
       ELSE IF opened.status # 200
       THEN vault_resp' = VaultResponse("get", opened.status, opened.detail, NoBody)
       ELSE vault_resp' = VaultResponse("get", 200, "",
                Body([ f \in SecretWithContentFields |->
                          IF f = "id" THEN secret_id
                          ELSE IF f = "content" THEN opened.content
                          ELSE secret[f] ],
                     {}, 0, 0, 0, 0, ""))
    /\ UNCHANGED <<secrets, vault_content, vault_gone>>

\* variant: the new ciphertext stored next to the nonce of the old one
reencrypted_keeping_nonce(secret, content, user_id, urandom) ==
    [secret EXCEPT !.encrypted_content = VaultSealed[user_id][content][urandom].c]

\* "Re-encrypt content if provided" of update_secret
reencrypted(secret, content, user_id, urandom) ==
    [secret EXCEPT !.encrypted_content = VaultSealed[user_id][content][urandom].c,
                   !.nonce = VaultSealed[user_id][content][urandom].n]

\* variant: the name column takes the body's name even when it is None
set_name_always(secret, name) == [secret EXCEPT !.name = name]

\* "if secret_data.name is not None: secret.name = secret_data.name"
set_name(secret, name) == IF name # PyNone THEN [secret EXCEPT !.name = name] ELSE secret

\* "if secret_data.description is not None: secret.description = ..."
set_description(secret, description) ==
    IF description # PyNone THEN [secret EXCEPT !.description = description] ELSE secret

\* PUT /secrets/{secret_id}; a field of secret_data that is None (NoContent
\* for content) leaves the column as it is
update_secret(credentials, secret_id, secret_data, urandom) ==
    LET cu == get_current_user(credentials)
        secret == secrets[secret_id]
        named == set_name(secret, secret_data.name)
        described == set_description(named, secret_data.description)
        sealed == IF secret_data.content # NoContent
                  THEN reencrypted(described, secret_data.content, cu.user, urandom)
                  ELSE described
        \* onupdate=func.now() applies when the commit writes a change
        row == IF sealed = secret THEN secret ELSE [sealed EXCEPT !.updated_at = clock]
        table == [secrets EXCEPT ![secret_id] = row]
    IN
    /\ vault_req' = [ep |-> "update", credentials |-> credentials, secret_id |-> secret_id,
                     name |-> secret_data.name, description |-> secret_data.description,
                     content |-> secret_data.content]
    /\ IF cu.status # 200 THEN
           /\ vault_resp' = NotAuthenticated("update", cu)
           /\ UNCHANGED <<secrets, vault_content, vault_gone>>
       ELSE IF find_secret(secret_id, cu.user) # "own" THEN
           /\ vault_resp' = SecretNotFound("update")
           /\ UNCHANGED <<secrets, vault_content, vault_gone>>
       ELSE
           /\ secrets' = table
           /\ vault_content' = IF secret_data.content # NoContent
                                THEN [vault_content EXCEPT ![secret_id] = secret_data.content]
                                ELSE vault_content
           /\ UNCHANGED vault_gone
           /\ vault_resp' = VaultResponse("update", 200, "",
                   Body(SecretResponse(table, secret_id), {}, 0, 0, 0, 0, ""))

\* variant: the row is kept when its deletion is answered
rows_after_soft_delete(secret_id) == secrets

\* "await db.delete(secret); await db.commit()": the table without the row
rows_after_delete(secret_id) == [ i \in DOMAIN secrets \ {secret_id} |-> secrets[i] ]

\* DELETE /secrets/{secret_id}
delete_secret(credentials, secret_id) ==
    LET cu == get_current_user(credentials) IN
    /\ vault_req' = [ep |-> "delete", credentials |-> credentials, secret_id |-> secret_id,
                     name |-> PyNone, description |-> PyNone, content |-> NoContent]
    /\ IF cu.status # 200 THEN
           /\ vault_resp' = NotAuthenticated("delete", cu)
           /\ UNCHANGED <<secrets, vault_content, vault_gone>>
       ELSE IF find_secret(secret_id, cu.user) # "own" THEN
           /\ vault_resp' = SecretNotFound("delete")
           /\ UNCHANGED <<secrets, vault_content, vault_gone>>
       ELSE
           /\ secrets' = rows_after_delete(secret_id)
           /\ vault_gone' = vault_gone \cup {secret_id}
           /\ vault_content' = [ i \in DOMAIN secrets \ {secret_id} |-> vault_content[i] ]
           /\ vault_resp' = VaultResponse("delete", 200, "",
                   Body(NoItem, {}, 0, 0, 0, 0, "Secret deleted successfully"))

\* the requests the model sends
SecretCreates == [ name : Names, description : { PyNone }, content : Contents ]
SecretUpdates ==
    [ name : { PyNone }, description : { PyNone }, content : Contents ]
        \cup [ name : { "n2" }, description : Descriptions, content : { NoContent } ]
RequestedIds == SecretIds \cup { MissingSecretId }

CreateSecret ==
    \E cr \in VaultCallers, d \in SecretCreates, u \in NonceDraws : create_secret(cr, d, u)
ListSecrets ==
    \E cr \in VaultCallers, q \in { <<1, 10>>, <<1, 1>>, <<2, 1>> } :
        list_secrets(cr, q[1], q[2])
GetSecret == \E cr \in VaultCallers, id \in RequestedIds : get_secret(cr, id)
UpdateSecret ==
    \E cr \in VaultCallers, id \in RequestedIds, d \in SecretUpdates, u \in NonceDraws :
        update_secret(cr, id, d, u)
DeleteSecret == \E cr \in VaultCallers, id \in RequestedIds : delete_secret(cr, id)

\* one owner and every shape of SecretUpdate body
OwnerCredentials == create_access_token("u1", 0)
SecretUpdateBodies ==
    [ name : { PyNone, "n2" }, description : { PyNone } \cup Descriptions,
      content : { NoContent } \cup Contents ]

CreateByOwner ==
    \E d \in SecretCreates, u \in NonceDraws : create_secret(OwnerCredentials, d, u)
UpdateByOwner ==
    \E id \in SecretIds, d \in SecretUpdateBodies, u \in NonceDraws :
        id \in DOMAIN secrets /\ update_secret(OwnerCredentials, id, d, u)

\* what the callers of the protected routes present: access tokens of an
\* active user, of a deactivated user and of a user in no row, a refresh
\* token, and no header
RouteCallers ==
    { create_access_token(u, 0) : u \in { "u1", "u2", "u3" } }
        \cup { create_refresh_token("u1", 0), NoCredentials }
RouteCreate == [ name |-> "n1", description |-> PyNone, content |-> <<112>> ]
RouteUpdate == [ name |-> "n2", description |-> PyNone, content |-> NoContent ]
RouteDraw == [k \in 1..NONCE_LENGTH |-> 0]

\* the routes that depend on CurrentUser
MeRoute == \E cr \in RouteCallers : get_me(cr)
LogoutRoute == \E cr \in RouteCallers : logout(cr)
ChangePasswordRoute ==
    \E cr \in RouteCallers, cur \in Passwords, new \in Passwords, s \in Salts :
        change_password(cr, cur, new, s)
CreateRoute == \E cr \in RouteCallers : create_secret(cr, RouteCreate, RouteDraw)
ListRoute == \E cr \in RouteCallers : list_secrets(cr, 1, 10)
GetRoute == \E cr \in RouteCallers : get_secret(cr, "s1")
UpdateRoute == \E cr \in RouteCallers : update_secret(cr, "s1", RouteUpdate, RouteDraw)
DeleteRoute == \E cr \in RouteCallers : delete_secret(cr, "s1")
\* the access tokens expire
RouteTick ==
    /\ clock = 0 /\ clock' = (AccessTTLSeconds + 1) * TicksPerSecond
    /\ UNCHANGED <<users, issued, used, resp>>

\* the refresh tokens presented to POST /auth/refresh besides those the API
\* returned: of the active user, of the deactivated user, of a user in no row
SessionTokens == { create_refresh_token(u, 0) : u \in { "u1", "u2", "u3" } }
SessionRefresh == \E tk \in SessionTokens \cup IssuedTokens : refresh_tokens(tk)

\* SecretCreate: content has min_length=1
SecretCreate_valid(secret_data) == Len(secret_data.content) >= 1

\* POST /secrets as FastAPI runs it: the CurrentUser dependency, then the
\* validation of the body (422), then the handler
post_secrets(credentials, secret_data, urandom) ==
    LET cu == get_current_user(credentials) IN
    IF cu.status = 200 /\ ~SecretCreate_valid(secret_data)
    THEN /\ vault_req' = [ep |-> "create", credentials |-> credentials, secret_id |-> "",
                          name |-> secret_data.name, description |-> secret_data.description,
                          content |-> secret_data.content]
         /\ vault_resp' = VaultResponse("create", 422, "Unprocessable Entity", NoBody)
         /\ UNCHANGED <<secrets, vault_content, vault_gone>>
    ELSE create_secret(credentials, secret_data, urandom)

\* requests of every route, most of them refused: u1 is active, u2 is
\* deactivated
FewCallers == { create_access_token("u1", 0), create_access_token("u2", 0), NoCredentials }
\* the active user, and no header
OwnerOrNobody == { create_access_token("u1", 0), NoCredentials }
AnyRegister == \E e \in RawEmails, pw \in Passwords, s \in Salts : register(e, pw, s)
AnyLogin ==
    \E e \in { <<97, 64, 120>>, <<98, 64, 120>>, <<99, 64, 120>> }, pw \in Passwords, s \in Salts :
        login(e, pw, s)
AnyRefresh == \E tk \in SessionTokens \cup { create_access_token("u1", 0) } : refresh_tokens(tk)
AnyMe == \E cr \in FewCallers : get_me(cr)
AnyLogout == \E cr \in OwnerOrNobody : logout(cr)
AnyChangePassword ==
    \E cr \in OwnerOrNobody, cur \in Passwords, new \in Passwords, s \in Salts :
        change_password(cr, cur, new, s)
AnyCreate ==
    \E cr \in FewCallers, content \in { <<>>, <<112>> } :
        post_secrets(cr, [RouteCreate EXCEPT !.content = content], RouteDraw)
AnyList == \E cr \in FewCallers : list_secrets(cr, 1, 10)
AnyGet == \E cr \in FewCallers : get_secret(cr, "s1")
AnyUpdate == \E cr \in FewCallers : update_secret(cr, "s1", RouteUpdate, RouteDraw)
AnyDelete == \E cr \in FewCallers : delete_secret(cr, "s1")

InitVaultIdle ==
    /\ secrets = [ i \in {} |-> 0 ]
    /\ vault_req = NoVaultReq
    /\ vault_resp = NoVaultResp
    /\ vault_content = [ i \in {} |-> NoContent ]
    /\ vault_gone = {}

-----------------------------------------------------------------------------
(* Specifications *)

InitOtherIdle ==
    InitPwIdle /\ login_req = NoLoginReq /\ InitCfgIdle /\ InitRegIdle /\ InitVaultIdle

InitAuth ==
    /\ clock = 0
    /\ users = [id \in {} |-> UserRow(<<>>, hash_password("", ""))]
    /\ issued = {}
    /\ used = {}
    /\ resp = NoResponse

InitJwtIdle ==
    /\ jwt_in = MalformedToken
    /\ jwt_out = [fn |-> "", at |-> 0, kind |-> "", exc |-> "", payload |-> NoPayload]

InitCryptoIdle ==
    /\ enc_log = <<>>
    /\ dec_in = NoDecIn
    /\ dec_out = NoDecOut

\* the API
Init == InitAuth /\ InitJwtIdle /\ InitCryptoIdle /\ InitOtherIdle

Next ==
    \/ Register /\ UNCHANGED <<jwtVars, cryptoVars, otherVars>>
    \/ Login /\ UNCHANGED <<jwtVars, cryptoVars, otherVars>>
    \/ Refresh /\ UNCHANGED <<jwtVars, cryptoVars, otherVars>>
    \/ GetMe /\ UNCHANGED <<jwtVars, cryptoVars, otherVars>>
    \/ ChangePassword /\ UNCHANGED <<jwtVars, cryptoVars, otherVars>>
    \/ Logout /\ UNCHANGED <<jwtVars, cryptoVars, otherVars>>
    \/ Tick /\ UNCHANGED <<jwtVars, cryptoVars, otherVars>>

Spec == Init /\ [][Next]_vars

\* decode_token, verify_access_token and verify_refresh_token as functions of
\* the token and the clock
InitJwt ==
    /\ clock = 0
    /\ jwt_in \in TokenInputs
    /\ jwt_out = [fn |-> "", at |-> 0, kind |-> "", exc |-> "", payload |-> NoPayload]
    /\ users = [id \in {} |-> UserRow(<<>>, hash_password("", ""))]
    /\ issued = {} /\ used = {} /\ resp = NoResponse
    /\ InitCryptoIdle /\ InitOtherIdle

NextJwt ==
    \/ DecodeToken /\ UNCHANGED <<users, issued, used, resp, cryptoVars, otherVars>>
    \/ VerifyAccessToken /\ UNCHANGED <<users, issued, used, resp, cryptoVars, otherVars>>
    \/ VerifyRefreshToken /\ UNCHANGED <<users, issued, used, resp, cryptoVars, otherVars>>
    \/ JwtTick /\ UNCHANGED <<users, issued, used, resp, cryptoVars, otherVars>>

SpecJwt == InitJwt /\ [][NextJwt]_vars

\* encrypt, rotate_encryption and decrypt on what they returned
NextCrypto ==
    \/ Encrypt /\ UNCHANGED <<authVars, jwtVars, otherVars>>
    \/ Rotate /\ UNCHANGED <<authVars, jwtVars, otherVars>>
    \/ Decrypt /\ UNCHANGED <<authVars, jwtVars, otherVars>>

SpecCrypto == Init /\ [][NextCrypto]_vars

\* decrypt and GET /secrets/{id} on one stored pair and on inputs altered from it
InitTamper ==
    /\ InitAuth /\ InitJwtIdle /\ InitOtherIdle
    /\ \E plaintext \in Plaintexts, user_id \in KeyUserIds, urandom \in NonceDraws :
          /\ encrypt(plaintext, user_id, urandom).kind = "ok"
          /\ enc_log = <<LogEntry("encrypt", user_id, plaintext, urandom,
                                  encrypt(plaintext, user_id, urandom))>>
    /\ dec_in \in AlteredInputs(enc_log[1]) \cup FlippedInputs(enc_log[1])
    /\ dec_out = NoDecOut

NextTamper ==
    \/ DecryptInput /\ UNCHANGED <<authVars, jwtVars, otherVars>>
    \/ GetSecretInput /\ UNCHANGED <<authVars, jwtVars, otherVars>>
    \/ RotateInput /\ UNCHANGED <<authVars, jwtVars, otherVars>>

SpecTamper == InitTamper /\ [][NextTamper]_vars

\* hash_password, verify_password and check_needs_rehash as functions
NextPw ==
    \/ HashPassword /\ UNCHANGED <<authVars, jwtVars, cryptoVars, login_req, cfgVars, regVars, vaultVars>>
    \/ VerifyPassword /\ UNCHANGED <<authVars, jwtVars, cryptoVars, login_req, cfgVars, regVars, vaultVars>>
    \/ CheckNeedsRehash /\ UNCHANGED <<authVars, jwtVars, cryptoVars, login_req, cfgVars, regVars, vaultVars>>

SpecPw == Init /\ [][NextPw]_vars

\* POST /auth/login against two registered users
InitLogin ==
    /\ clock = 0
    /\ \E r1 \in RowsOf(<<97, 64, 120>>), r2 \in RowsOf(<<98, 64, 120>>) :
          users = [id \in UserIds |-> IF id = "u1" THEN r1 ELSE r2]
    /\ issued = {} /\ used = {} /\ resp = NoResponse
    /\ InitJwtIdle /\ InitCryptoIdle /\ InitPwIdle /\ InitCfgIdle /\ InitRegIdle
    /\ InitVaultIdle
    /\ login_req = NoLoginReq

NextLogin ==
    LoginRequest /\ UNCHANGED <<jwtVars, cryptoVars, pwVars, cfgVars, regVars, vaultVars>>

SpecLogin == InitLogin /\ [][NextLogin]_vars

\* the process from its start, for every environment
InitCfg ==
    /\ InitAuth /\ InitJwtIdle /\ InitCryptoIdle /\ InitPwIdle /\ InitRegIdle
    /\ InitVaultIdle
    /\ login_req = NoLoginReq
    /\ cfg_env \in Environments
    /\ cfg_cache = NoSettings
    /\ cfg_proc = [state |-> "not-started", made |-> 0, calls |-> 0, ops |-> 0]
    /\ cfg_out = NoCfgOut

NextCfg ==
    \/ StartProcess /\ UNCHANGED <<authVars, jwtVars, cryptoVars, pwVars, login_req, regVars, vaultVars>>
    \/ GetSettings /\ UNCHANGED <<authVars, jwtVars, cryptoVars, pwVars, login_req, regVars, vaultVars>>
    \/ Operate /\ UNCHANGED <<authVars, jwtVars, cryptoVars, pwVars, login_req, regVars, vaultVars>>

SpecCfg == InitCfg /\ [][NextCfg]_vars

\* registration requests, interleaved at their await points
NextRegister ==
    \/ RegisterLookup /\ UNCHANGED <<jwtVars, cryptoVars, pwVars, login_req, cfgVars, vaultVars>>
    \/ RegisterCommit /\ UNCHANGED <<jwtVars, cryptoVars, pwVars, login_req, cfgVars, vaultVars>>

SpecRegister == Init /\ [][NextRegister]_vars

\* the secrets API used by two registered, signed-in users
InitVault ==
    /\ clock = 0
    /\ users = [ id \in UserIds |->
                   UserRow(IF id = "u1" THEN <<97, 64, 120>> ELSE <<98, 64, 120>>,
                           hash_password("Correct-Horse-1", "salt1")) ]
    /\ issued = IssuedEntries("u1", create_tokens("u1", 0, 0), 0, 0)
                  \cup IssuedEntries("u2", create_tokens("u2", 0, 0), 0, 0)
    /\ used = {} /\ resp = NoResponse
    /\ InitJwtIdle /\ InitCryptoIdle /\ InitPwIdle /\ InitCfgIdle /\ InitRegIdle
    /\ login_req = NoLoginReq
    /\ InitVaultIdle

NextVault ==
    \/ CreateSecret /\ UNCHANGED <<authVars, jwtVars, cryptoVars, pwVars, login_req, cfgVars, regVars>>
    \/ ListSecrets /\ UNCHANGED <<authVars, jwtVars, cryptoVars, pwVars, login_req, cfgVars, regVars>>
    \/ GetSecret /\ UNCHANGED <<authVars, jwtVars, cryptoVars, pwVars, login_req, cfgVars, regVars>>
    \/ UpdateSecret /\ UNCHANGED <<authVars, jwtVars, cryptoVars, pwVars, login_req, cfgVars, regVars>>
    \/ DeleteSecret /\ UNCHANGED <<authVars, jwtVars, cryptoVars, pwVars, login_req, cfgVars, regVars>>

SpecVault == InitVault /\ [][NextVault]_vars

\* the owner creating secrets and updating them with every shape of body
NextUpdate ==
    \/ CreateByOwner /\ UNCHANGED <<authVars, jwtVars, cryptoVars, pwVars, login_req, cfgVars, regVars>>
    \/ UpdateByOwner /\ UNCHANGED <<authVars, jwtVars, cryptoVars, pwVars, login_req, cfgVars, regVars>>

SpecUpdate == InitVault /\ [][NextUpdate]_vars

\* the protected routes called by every kind of caller, as time passes; u1 is
\* active, u2 is deactivated, u3 has no row
InitRoutes ==
    /\ clock = 0
    /\ users = [ id \in UserIds |->
                   [ UserRow(IF id = "u1" THEN <<97, 64, 120>> ELSE <<98, 64, 120>>,
                             hash_password("Correct-Horse-1", "salt1"))
                     EXCEPT !.is_active = (id = "u1") ] ]
    /\ issued = {} /\ used = {} /\ resp = NoResponse
    /\ InitJwtIdle /\ InitCryptoIdle /\ InitPwIdle /\ InitCfgIdle /\ InitRegIdle
    /\ login_req = NoLoginReq
    /\ InitVaultIdle

NextRoutes ==
    \/ MeRoute /\ UNCHANGED <<jwtVars, cryptoVars, otherVars>>
    \/ LogoutRoute /\ UNCHANGED <<jwtVars, cryptoVars, otherVars>>
    \/ ChangePasswordRoute /\ UNCHANGED <<jwtVars, cryptoVars, otherVars>>
    \/ CreateRoute /\ UNCHANGED <<authVars, jwtVars, cryptoVars, pwVars, login_req, cfgVars, regVars>>
    \/ ListRoute /\ UNCHANGED <<authVars, jwtVars, cryptoVars, pwVars, login_req, cfgVars, regVars>>
    \/ GetRoute /\ UNCHANGED <<authVars, jwtVars, cryptoVars, pwVars, login_req, cfgVars, regVars>>
    \/ UpdateRoute /\ UNCHANGED <<authVars, jwtVars, cryptoVars, pwVars, login_req, cfgVars, regVars>>
    \/ DeleteRoute /\ UNCHANGED <<authVars, jwtVars, cryptoVars, pwVars, login_req, cfgVars, regVars>>
    \/ RouteTick /\ UNCHANGED <<jwtVars, cryptoVars, otherVars>>

SpecRoutes == InitRoutes /\ [][NextRoutes]_vars

\* login and refresh with u1 active, u2 deactivated and u3 in no row
NextSession ==
    \/ LoginRequest /\ UNCHANGED <<jwtVars, cryptoVars, pwVars, cfgVars, regVars, vaultVars>>
    \/ SessionRefresh /\ UNCHANGED <<jwtVars, cryptoVars, otherVars>>
    \/ Tick /\ UNCHANGED <<jwtVars, cryptoVars, otherVars>>

SpecSession == InitRoutes /\ [][NextSession]_vars

\* every route, with requests that are refused and requests that are served
NextRefusals ==
    \/ AnyRegister /\ UNCHANGED <<jwtVars, cryptoVars, otherVars>>
    \/ AnyLogin /\ UNCHANGED <<jwtVars, cryptoVars, otherVars>>
    \/ AnyRefresh /\ UNCHANGED <<jwtVars, cryptoVars, otherVars>>
    \/ AnyMe /\ UNCHANGED <<jwtVars, cryptoVars, otherVars>>
    \/ AnyLogout /\ UNCHANGED <<jwtVars, cryptoVars, otherVars>>
    \/ AnyChangePassword /\ UNCHANGED <<jwtVars, cryptoVars, otherVars>>
    \/ AnyCreate /\ UNCHANGED <<authVars, jwtVars, cryptoVars, pwVars, login_req, cfgVars, regVars>>
    \/ AnyList /\ UNCHANGED <<authVars, jwtVars, cryptoVars, pwVars, login_req, cfgVars, regVars>>
    \/ AnyGet /\ UNCHANGED <<authVars, jwtVars, cryptoVars, pwVars, login_req, cfgVars, regVars>>
    \/ AnyUpdate /\ UNCHANGED <<authVars, jwtVars, cryptoVars, pwVars, login_req, cfgVars, regVars>>
    \/ AnyDelete /\ UNCHANGED <<authVars, jwtVars, cryptoVars, pwVars, login_req, cfgVars, regVars>>

SpecRefusals == InitRoutes /\ [][NextRefusals]_vars

-----------------------------------------------------------------------------
(* Properties of the token unit and of the token endpoints *)

IssuedBy(fn) == { e.token : e \in { x \in issued : x.fn = fn } }
ProtectedRoutes == { "me", "change-password", "logout" }
ExpClaim(token) == token.claims.exp.i
TTLSeconds(fn) == IF fn = "access" THEN AccessTTLSeconds ELSE RefreshTTLSeconds
CreateToken(fn, u, T) ==
    IF fn = "access" THEN create_access_token(u, T) ELSE create_refresh_token(u, T)
VerifyToken(fn, token, now) ==
    IF fn = "access" THEN verify_access_token(token, now) ELSE verify_refresh_token(token, now)
VerifyName(fn) == IF fn = "access" THEN "verify_access_token" ELSE "verify_refresh_token"

(* C1: token type separation.  At every clock time verify_refresh_token    *)
(* returns None for a token made by create_access_token and                *)
(* verify_access_token returns None for a token made by                    *)
(* create_refresh_token; POST /auth/refresh given an access token answers  *)
(* 401, and a protected route given a refresh token answers 401.           *)
C1_TokenTypeSeparation ==
    /\ \A e \in issued, t \in ClockPoints \cup {clock} :
          /\ (e.fn = "access" => verify_refresh_token(e.token, t).kind = "none")
          /\ (e.fn = "refresh" => verify_access_token(e.token, t).kind = "none")
    /\ ((resp.ep = "refresh" /\ resp.req \in IssuedBy("access")) => resp.status = 401)
    /\ ((resp.ep \in ProtectedRoutes /\ resp.req \in IssuedBy("refresh")) => resp.status = 401)

\* an access token that is still good as an access token was refused at POST /auth/refresh
C1_AccessTokenRefusedAtRefresh ==
    /\ resp.ep = "refresh"
    /\ resp.req \in IssuedBy("access")
    /\ resp.status = 401
    /\ verify_access_token(resp.req, clock).kind = "ok"

(* C2: a token issued at clock second T with a lifetime of D seconds is    *)
(* accepted by the matching verify function, with the subject it was       *)
(* issued for, at every time from T to T+D-1, and is rejected (None) at    *)
(* every time from T+D+1 on; once rejected it is never accepted again.     *)
C2_Window ==
    \A fn \in {"access", "refresh"}, u \in UserIds, T \in IssueTimes :
        (jwt_in = CreateToken(fn, u, T) /\ jwt_out.fn = VerifyName(fn) /\ jwt_out.at >= T) =>
            /\ (timestamp_int(jwt_out.at) <= timestamp_int(T) + TTLSeconds(fn) - 1
                  => (jwt_out.kind = "ok" /\ jwt_out.payload.sub = u))
            /\ (timestamp_int(jwt_out.at) >= timestamp_int(T) + TTLSeconds(fn) + 1
                  => jwt_out.kind = "none")

C2_Terminal ==
    \A fn \in {"access", "refresh"} :
        (jwt_in \in {CreateToken(fn, u, T) : u \in UserIds, T \in IssueTimes}
            /\ VerifyToken(fn, jwt_in, clock).kind = "none")
        => VerifyToken(fn, jwt_in, clock').kind = "none"

C2_Expiry == []C2_Window /\ [][C2_Terminal]_vars

\* an access token issued at second 0 was accepted in the last second of its window
C2_AcceptedInLastSecond ==
    /\ jwt_in = create_access_token("u1", 0)
    /\ jwt_out.fn = "verify_access_token"
    /\ jwt_out.at = (AccessTTLSeconds - 1) * TicksPerSecond
    /\ jwt_out.kind = "ok"

(* C3: decode_token, verify_access_token and verify_refresh_token return   *)
(* None and never raise, whatever the token: bad signature, malformed,     *)
(* expired, or correctly signed with a malformed payload.                  *)
C3_NeverRaises == jwt_out.kind # "raise"

(* C4: the result of verifying an issued token depends only on the token   *)
(* and the clock.  A refresh token is accepted at POST /auth/refresh, and  *)
(* an access token on the protected routes, exactly as long as the clock   *)
(* has not passed the token's exp, whatever requests were served before:   *)
(* a spent refresh token is accepted again, an access token is accepted    *)
(* after logout and after change-password.                                 *)
C4_Function ==
    \A e \in issued :
        (VerifyToken(e.fn, e.token, clock).kind = "ok") <=> (timestamp_int(clock) <= ExpClaim(e.token))

C4_Requests ==
    clock' = clock =>
        /\ ((resp'.ep = "refresh" /\ resp'.req \in IssuedBy("refresh"))
              => (resp'.status = 200 <=> timestamp_int(clock) <= ExpClaim(resp'.req)))
        /\ ((resp'.ep \in ProtectedRoutes /\ resp'.req \in IssuedBy("access"))
              => (resp'.status # 401 <=> timestamp_int(clock) <= ExpClaim(resp'.req)))

C5_OldRefreshTokenRejected ==
    (resp.ep = "refresh" /\ resp.reuse) => resp.status = 401

-----------------------------------------------------------------------------
(* Properties of the encryption unit *)

StoredPairs == { k \in 1..Len(enc_log) : enc_log[k].kind = "ok" }

(* C6: round trip.  For the pair (c, n) that encrypt(P, U) returned,       *)
(* decrypt(c, n, U) returns P, at any later time and however often.        *)
C6_RoundTrip ==
    /\ \A k \in StoredPairs :
          enc_log[k].fn = "encrypt" =>
              decrypt(enc_log[k].c, enc_log[k].n, enc_log[k].user) =
                  [kind |-> "ok", exc |-> "", msg |-> "", text |-> enc_log[k].plaintext]
    /\ (/\ dec_out.fn = "decrypt"
        /\ dec_in.of \in StoredPairs
        /\ enc_log[dec_in.of].fn = "encrypt"
        /\ dec_in.user = enc_log[dec_in.of].user)
       => (dec_out.kind = "ok" /\ dec_out.text = enc_log[dec_in.of].plaintext)

\* a text outside ASCII came back from decrypt after a second encrypt call
C6_NonAsciiCameBack ==
    /\ Len(enc_log) = 2
    /\ dec_in.of = 1
    /\ enc_log[1].fn = "encrypt"
    /\ enc_log[1].plaintext = <<97, 233, 8364, 128512>>
    /\ dec_in.user = enc_log[1].user
    /\ dec_out.kind = "ok"
    /\ dec_out.text = <<97, 233, 8364, 128512>>

\* the inputs one stored pair gives rise to by alteration
Tampered ==
    /\ dec_out.fn = "decrypt"
    /\ dec_in.user = enc_log[1].user
    /\ dec_in.c # enc_log[1].c \/ dec_in.n # enc_log[1].n

SameBytes ==
    /\ b64decode(dec_in.c) = b64decode(enc_log[1].c)
    /\ b64decode(dec_in.n) = b64decode(enc_log[1].n)

IdTexts == KeyUserIds \cup { <<>>, <<117>>, <<49>>, <<117, 49, 49>>, <<58, 117, 49>>, <<117, 49, 58>> }

KeysDiffer == \A a \in IdTexts, b \in IdTexts : a # b => derive_user_key(a) # derive_user_key(b)

C8_CrossUserIsolation ==
    /\ KeysDiffer
    /\ \A k \in StoredPairs, b \in KeyUserIds :
          b # enc_log[k].user => decrypt(enc_log[k].c, enc_log[k].n, b) = DecryptionFailed
    /\ (/\ dec_out.fn = "decrypt"
        /\ dec_in.of \in StoredPairs
        /\ dec_in.user # enc_log[dec_in.of].user)
       => (dec_out.kind = "raise" /\ dec_out.msg = DecryptionFailed.msg)

\* decrypt under another user id was tried and raised
C8_OtherUserRefused ==
    /\ dec_in.of \in StoredPairs
    /\ dec_in.user # enc_log[dec_in.of].user
    /\ dec_out.kind = "raise"

C10_OneFailure ==
    dec_out.kind = "raise" =>
        /\ dec_out.text = <<>>
        /\ dec_out.exc = DecryptionFailed.exc
        /\ dec_out.msg = DecryptionFailed.msg
        /\ (dec_out.fn = "get_secret"
              => (dec_out.status = 500 /\ dec_out.detail = "Failed to decrypt secret"))

-----------------------------------------------------------------------------

\* rotate_encryption was applied to an input that decrypt refuses under that user
RotateRefused ==
    /\ dec_out.fn = "rotate"
    /\ decrypt(dec_in.c, dec_in.n, dec_in.user).kind = "raise"

(* C11, the failure half: when (c, n) does not decrypt under U,            *)
(* rotate_encryption raises the decryption failure and returns no new      *)
(* payload.                                                                *)
C11_RotateRaisesDecryptionFailure ==
    RotateRefused =>
        /\ dec_out.kind = "raise"
        /\ dec_out.exc = DecryptionFailed.exc
        /\ dec_out.msg = DecryptionFailed.msg
        /\ Len(enc_log) = 1

(* C11, the success half: for a pair (c, n) that decrypts under U to P,    *)
(* rotate_encryption returns (c2, n2) that decrypts under U to P, and the  *)
(* old pair still decrypts to P; n2 is the base64 text of the new draw.    *)
C11_RotatedPairDecrypts ==
    \A k \in StoredPairs :
        enc_log[k].fn = "rotate" =>
            /\ decrypt(enc_log[k].c, enc_log[k].n, enc_log[k].user).kind = "ok"
            /\ decrypt(enc_log[k].c, enc_log[k].n, enc_log[k].user).text = enc_log[k].plaintext
            /\ decrypt(dec_in.c, dec_in.n, dec_in.user).text = enc_log[k].plaintext
            /\ enc_log[k].n = b64encode(enc_log[k].urandom)

\* the nonce part of C11: the new nonce text differs from the old one
C11_NewNonceDiffers ==
    \A k \in StoredPairs : enc_log[k].fn = "rotate" => enc_log[k].n # dec_in.n

-----------------------------------------------------------------------------

(* C12: for every credential h that hash_password(p) returned,             *)
(* verify_password(p, h) is True and verify_password(q, h) is False for    *)
(* every password q other than p.                                          *)
C12_VerifyMatchesHash ==
    /\ \A k \in 1..Len(pw_log), q \in TriedPasswords :
          verify_password(q, pw_log[k].h) =
              [kind |-> "return", exc |-> "", value |-> (q = pw_log[k].password)]
    /\ (pw_out.fn = "verify_password" /\ pw_in.hash \in HashedSoFar) =>
          /\ pw_out.kind = "return"
          /\ pw_out.value =
                 (\E k \in 1..Len(pw_log) :
                      pw_log[k].h = pw_in.hash /\ pw_log[k].password = pw_in.password)

\* one password hashed twice under different salts, and accepted for the second hash
C12_SecondHashAccepted ==
    /\ Len(pw_log) = 2
    /\ pw_log[1].password = pw_log[2].password
    /\ pw_log[1].h # pw_log[2].h
    /\ pw_out.fn = "verify_password"
    /\ pw_in.hash = pw_log[2].h
    /\ pw_in.password = pw_log[2].password
    /\ pw_out.value

(* C13: for a malformed credential string verify_password returns False    *)
(* and never raises, whatever the password.                                *)
C13_MalformedReturnsFalse ==
    (pw_out.fn = "verify_password" /\ pw_in.hash \in MalformedCredentials) =>
        (pw_out.kind = "return" /\ pw_out.value = FALSE)

-----------------------------------------------------------------------------

\* the user the sign-in request names, if any, before the request is handled
LoginUser == UsersByEmail(normalize_email(login_req'.email))

(* C14: at POST /auth/login password_hash is replaced only in a request    *)
(* whose password verify_password has accepted, for an active account      *)
(* whose hash check_needs_rehash reports; check_needs_rehash is not called *)
(* before verify_password has succeeded; the new hash accepts the same     *)
(* passwords as the old one; a login that fails leaves password_hash as    *)
(* it was.                                                                 *)
C14_Step ==
    /\ \A id \in DOMAIN users :
          users'[id].password_hash # users[id].password_hash =>
              /\ resp'.ep = "login" /\ resp'.status = 200 /\ resp'.user = id
              /\ LoginUser = {id}
              /\ verify_password(login_req'.password, users[id].password_hash).value
              /\ users[id].is_active
              /\ check_needs_rehash(users[id].password_hash)
              /\ users'[id].password_hash.digest.pw = login_req'.password
              /\ \A q \in TriedPasswords :
                    verify_password(q, users'[id].password_hash).value
                        = verify_password(q, users[id].password_hash).value
    /\ (resp'.status # 200 => users' = users)
    /\ \A i \in 1..Len(login_req'.calls) :
          login_req'.calls[i] = "check_needs_rehash" =>
              /\ \E j \in 1..(i - 1) : login_req'.calls[j] = "verify_password"
              /\ \E id \in LoginUser :
                    verify_password(login_req'.password, users[id].password_hash).value

C14_RehashOnlyAfterVerification == [][C14_Step]_vars

\* a hash made under earlier parameters was replaced by a successful login
C14_LegacyHashReplaced ==
    /\ resp.ep = "login" /\ resp.status = 200
    /\ login_req.calls = <<"verify_password", "check_needs_rehash", "hash_password", "create_tokens">>
    /\ users[resp.user].password_hash \notin LegacyCredentials
    /\ verify_password(login_req.password, users[resp.user].password_hash).value

(* C15: POST /auth/login answers 401 'Invalid email or password', with no  *)
(* field of the response telling the cases apart, when the e-mail matches  *)
(* no user, when the password is wrong and when the account is inactive,   *)
(* and issues no token in any of them.                                     *)
C15_Step ==
    (\/ LoginUser = {}
     \/ \E id \in LoginUser :
            \/ ~verify_password(login_req'.password, users[id].password_hash).value
            \/ ~users[id].is_active)
    => /\ resp' = Response("login", 401, "Invalid email or password", NoCredentials, "")
       /\ issued' = issued
       /\ users' = users

C15_UniformLoginFailure == [][C15_Step]_vars

\* the right password for a deactivated account was answered like a wrong one
C15_InactiveAnsweredAsWrongPassword ==
    /\ resp = Response("login", 401, "Invalid email or password", NoCredentials, "")
    /\ \E id \in UsersByEmail(normalize_email(login_req.email)) :
          /\ ~users[id].is_active
          /\ verify_password(login_req.password, users[id].password_hash).value

-----------------------------------------------------------------------------

\* the environments the claim names as refused
C16_Refused ==
    \/ Len(cfg_env.jwt_secret_key) < 32
    \/ Len(cfg_env.encryption_master_key) < 32
    \/ cfg_env.access_token_expire_minutes \notin 1..60
    \/ cfg_env.refresh_token_expire_days \notin 1..30
    \/ cfg_env.argon2_time_cost < 1
    \/ cfg_env.argon2_memory_cost < 8192
    \/ cfg_env.argon2_parallelism < 1

(* C16: with a secret shorter than 32 characters or a token lifetime or    *)
(* Argon2 cost outside its range, Settings construction fails, the process *)
(* does not run and no operation ever runs; once constructed, the settings *)
(* object is never changed and every get_settings() call returns that      *)
(* same object.                                                            *)
C16_State ==
    /\ C16_Refused =>
          /\ cfg_proc.state # "running"
          /\ cfg_proc.ops = 0
          /\ cfg_cache = NoSettings
          /\ cfg_out.kind # "ok"
    /\ cfg_proc.state = "running" =>
          /\ cfg_cache = [obj |-> 1, values |-> cfg_env]
          /\ cfg_proc.made = 1
          /\ cfg_out = [kind |-> "ok", exc |-> "", obj |-> 1]

C16_Step == cfg_cache # NoSettings => cfg_cache' = cfg_cache

C16_StartupValidation == []C16_State /\ [][C16_Step]_vars

\* a refresh lifetime of 31 days alone kept the process from starting
C16_OneBadFieldStopsStart ==
    /\ cfg_proc.state = "failed"
    /\ cfg_out.exc = "ValidationError"
    /\ SettingsErrors(cfg_env) = { "refresh_token_expire_days" }
    /\ cfg_env.refresh_token_expire_days = 31

-----------------------------------------------------------------------------

\* str.lower() of an address
Lowercased(v) == [k \in 1..Len(v) |-> Lower(v[k])]

(* C17: POST /auth/register with an e-mail that, lowercased, is the e-mail *)
(* of an existing user answers 400 and creates no user; e-mails are stored *)
(* lowercased; no two users have the same e-mail.                          *)
C17_State ==
    /\ \A id \in DOMAIN users : users[id].email = Lowercased(users[id].email)
    /\ \A a \in DOMAIN users, b \in DOMAIN users :
          a # b => users[a].email # users[b].email

C17_Step ==
    (/\ reg_last'.step = "lookup"
     /\ \E id \in DOMAIN users : users[id].email = Lowercased(reg_last'.email))
    => /\ resp'.ep = "register"
       /\ resp'.status = 400
       /\ users' = users
       /\ reg_flight' = reg_flight

C17_UniqueLowercasedEmail == []C17_State /\ [][C17_Step]_vars

\* "A@x" was refused because "a@x" is registered
C17_CaseVariantRefused ==
    /\ reg_last = [email |-> <<65, 64, 120>>, step |-> "lookup"]
    /\ resp.ep = "register" /\ resp.status = 400
    /\ \E id \in DOMAIN users : users[id].email = <<97, 64, 120>>
    /\ Cardinality(DOMAIN users) = 1

\* what the owner of a row reads from it: the outcome of get_secret's decrypt
OwnerReads(table, id) ==
    VaultOpened[table[id].user_id][<<table[id].encrypted_content, table[id].nonce>>]

\* C18: when an authenticated user sends GET, PUT or DELETE for a secret of
\* another user, the answer is 404 "Secret not found" with no body, which is
\* the answer for an id that is in no row; the table is left as it was, and
\* the owner still reads the same content from the row.
C18_Step ==
    LET cu == get_current_user(vault_req'.credentials)
        id == vault_req'.secret_id
    IN (/\ vault_req'.ep \in { "get", "update", "delete" }
        /\ cu.status = 200
        /\ \/ id \notin DOMAIN secrets
           \/ secrets[id].user_id # cu.user)
       => /\ vault_resp' = [ ep |-> vault_req'.ep, status |-> 404,
                             detail |-> "Secret not found", body |-> NoBody ]
          /\ secrets' = secrets
          /\ id \in DOMAIN secrets =>
                /\ OwnerReads(secrets', id).status = 200
                /\ OwnerReads(secrets', id) = OwnerReads(secrets, id)
C18_NonOwnerGetsNotFound == [][C18_Step]_vars

\* C18 witness: u2 sent a PUT with new content for a secret of u1 and got 404
C18_ForeignUpdateRefused ==
    /\ vault_req.ep = "update"
    /\ vault_req.credentials = create_access_token("u2", 0)
    /\ vault_req.content = <<233, 8364>>
    /\ vault_req.secret_id \in DOMAIN secrets
    /\ secrets[vault_req.secret_id].user_id = "u1"
    /\ OwnerReads(secrets, vault_req.secret_id).content = <<112>>
    /\ vault_resp.status = 404

\* C19: every item of a GET /secrets answer is a row whose user_id is the
\* caller's id, total is the number of the caller's rows, and an item has the
\* fields of SecretResponse only: no content, encrypted_content or nonce.
C19_ListShowsOwnMetadataOnly ==
    (vault_req.ep = "list" /\ vault_resp.status = 200) =>
        LET cu == get_current_user(vault_req.credentials) IN
        /\ \A item \in vault_resp.body.items :
              /\ item.id \in DOMAIN secrets
              /\ secrets[item.id].user_id = cu.user
              /\ DOMAIN item = { "id", "name", "description", "created_at", "updated_at" }
              /\ DOMAIN item \cap { "content", "encrypted_content", "nonce" } = {}
        /\ vault_resp.body.total =
              Cardinality({ id \in DOMAIN secrets : secrets[id].user_id = cu.user })

\* C19 witness: u1 and u2 have one secret each, and u1's list shows one item
C19_OtherUsersSecretNotListed ==
    /\ vault_req.ep = "list"
    /\ vault_req.credentials = create_access_token("u1", 0)
    /\ { secrets[id].user_id : id \in DOMAIN secrets } = { "u1", "u2" }
    /\ vault_resp.body.total = 1
    /\ Cardinality(vault_resp.body.items) = 1

\* C20, in every state: each row opens under its owner's key to the content
\* last given for it, and a GET answered 200 carries that content; an owner's
\* GET is never answered with a decryption failure.
C20_State ==
    /\ \A id \in DOMAIN secrets :
          /\ OwnerReads(secrets, id).status = 200
          /\ OwnerReads(secrets, id).content = vault_content[id]
    /\ vault_req.ep = "get" =>
          /\ vault_resp.status \in { 200, 401, 404 }
          /\ vault_resp.status = 200 =>
                vault_resp.body.item.content = vault_content[vault_req.secret_id]

\* C20, in every step: a create answered 201 adds a row that opens to the
\* content of the request, an update with content answered 200 leaves the row
\* opening to the content of the request, and every other row that stays
\* opens to what it opened to before.
C20_Step ==
    LET made == DOMAIN secrets' \ DOMAIN secrets
        id == vault_req'.secret_id
        written == IF vault_req'.ep = "update" /\ vault_resp'.status = 200
                      /\ vault_req'.content # NoContent
                   THEN { id } ELSE {}
    IN
    /\ (vault_req'.ep = "create" /\ vault_resp'.status = 201) =>
          /\ Cardinality(made) = 1
          /\ \A new \in made : OwnerReads(secrets', new).content = vault_req'.content
    /\ \A w \in written :
          /\ w \in DOMAIN secrets'
          /\ OwnerReads(secrets', w).content = vault_req'.content
    /\ \A old \in (DOMAIN secrets \cap DOMAIN secrets') \ written :
          OwnerReads(secrets', old) = OwnerReads(secrets, old)
C20_StoredPairOpensToLastContent == []C20_State /\ [][C20_Step]_vars

\* C20 witness: u1 reads the euro-sign content from a secret that was renamed
\* by an update
C20_OwnerReadsUpdatedContent ==
    /\ vault_req.ep = "get"
    /\ vault_req.credentials = create_access_token("u1", 0)
    /\ vault_resp.status = 200
    /\ vault_resp.body.item.content = <<233, 8364>>
    /\ vault_resp.body.item.name = "n2"

\* the columns of a secrets row that no PUT body can name
FixedColumns == { "user_id", "created_at" }

\* C21: when the owner's PUT is answered 200, the row keeps its id, owner and
\* creation time; name and description change only when the body gives them,
\* and then to the value given; without content in the body encrypted_content
\* and nonce stay as they were; with content both are replaced by the pair
\* that one encrypt call returns for the content under a fresh os.urandom
\* draw.  (updated_at is set by the database and is not a field of the body.)
C21_Step ==
    LET id == vault_req'.secret_id
        old == secrets[id]
        new == secrets'[id]
    IN (vault_req'.ep = "update" /\ vault_resp'.status = 200) =>
        /\ DOMAIN secrets' = DOMAIN secrets
        /\ \A other \in DOMAIN secrets \ {id} : secrets'[other] = secrets[other]
        /\ \A f \in FixedColumns : new[f] = old[f]
        /\ new.name = IF vault_req'.name = PyNone THEN old.name ELSE vault_req'.name
        /\ new.description = IF vault_req'.description = PyNone THEN old.description
                              ELSE vault_req'.description
        /\ IF vault_req'.content = NoContent
           THEN new.encrypted_content = old.encrypted_content /\ new.nonce = old.nonce
           ELSE \E urandom \in NonceDraws :
                   /\ new.nonce = VaultSealed[old.user_id][vault_req'.content][urandom].n
                   /\ new.encrypted_content =
                          VaultSealed[old.user_id][vault_req'.content][urandom].c
C21_UpdateTouchesOnlyGivenFields == [][C21_Step]_vars

\* C21 witness: a PUT that gave only a description was answered 200 on a row
\* that still has its first name
C21_DescriptionOnlyUpdate ==
    /\ vault_req.ep = "update" /\ vault_resp.status = 200
    /\ vault_req.name = PyNone /\ vault_req.content = NoContent
    /\ vault_req.description = "d1"
    /\ secrets[vault_req.secret_id].name = "n1"
    /\ secrets[vault_req.secret_id].description = "d1"
    /\ secrets[vault_req.secret_id].nonce = b64encode([k \in 1..NONCE_LENGTH |-> (37 * k) % 256])

\* C22, in every state: no row has the id of a deleted secret.
C22_State == vault_gone \cap DOMAIN secrets = {}

\* C22, in every step: a DELETE answered 200 removes the row it names and
\* leaves every other row as it was; an id once deleted stays deleted; and
\* GET, PUT and DELETE by an authenticated user on a deleted id are answered
\* 404 "Secret not found".
C22_Step ==
    LET cu == get_current_user(vault_req'.credentials)
        id == vault_req'.secret_id
    IN
    /\ vault_gone \subseteq vault_gone'
    /\ (vault_req'.ep = "delete" /\ vault_resp'.status = 200) =>
          /\ id \in DOMAIN secrets /\ id \in vault_gone'
          /\ DOMAIN secrets' = DOMAIN secrets \ {id}
          /\ \A other \in DOMAIN secrets' : secrets'[other] = secrets[other]
    /\ (/\ vault_req'.ep \in { "get", "update", "delete" }
        /\ cu.status = 200
        /\ id \in vault_gone)
       => /\ vault_resp'.status = 404
          /\ vault_resp'.detail = "Secret not found"
          /\ secrets' = secrets
C22_DeletionIsPermanent == []C22_State /\ [][C22_Step]_vars

\* C22 witness: a PUT with content for a deleted id is answered 404 while
\* another secret is still stored
C22_DeletedIdAnswersNotFound ==
    /\ vault_req.ep = "update" /\ vault_req.content # NoContent
    /\ vault_req.secret_id \in vault_gone
    /\ vault_resp.status = 404
    /\ DOMAIN secrets # {}

\* C23: a change-password request by an authenticated user U is answered 200
\* when the current password given is U's and the new one differs from it,
\* and then a login with the new password is answered 200 and a login with
\* the old one 401; it is answered 400, with every users row as it was, when
\* the current password given is wrong or the new one equals it.
C23_Outcome(cu, current_password, new_password) ==
    LET correct == verify_password(current_password, users[cu.user].password_hash).value
    IN cu.status = 200 =>
        IF correct /\ new_password # current_password
        THEN /\ resp'.status = 200
             /\ \A e \in RawEmails, s \in Salts :
                   normalize_email(e) = users[cu.user].email =>
                       /\ login_steps(e, new_password, s)'.resp.status = 200
                       /\ login_steps(e, current_password, s)'.resp.status = 401
        ELSE /\ resp'.status = 400
             /\ users' = users
C23_Step ==
    resp'.ep = "change-password" =>
        \A cur \in Passwords, new \in Passwords, s \in Salts :
            change_password(resp'.req, cur, new, s) =>
                C23_Outcome(get_current_user(resp'.req), cur, new)
C23_PasswordChange == [][C23_Step]_vars

\* C23 witness: a change from "Correct-Horse-1" to "Battery-Staple-2" was
\* answered 200
C23_PasswordReplaced ==
    /\ resp.ep = "change-password" /\ resp.status = 200
    /\ verify_password("Battery-Staple-2", users[resp.user].password_hash).value
    /\ ~verify_password("Correct-Horse-1", users[resp.user].password_hash).value

\* the decision C24 describes, in its order, for the credentials of a request
\* (500 when verify_access_token itself raises)
C24_Decision(credentials) ==
    LET v == verify_access_token(credentials, clock) IN
    IF credentials = NoCredentials THEN [status |-> 401, user |-> ""]
    ELSE IF v.kind = "raise" THEN [status |-> 500, user |-> ""]
    ELSE IF v.kind = "none" THEN [status |-> 401, user |-> ""]
    ELSE IF v.payload.sub \notin DOMAIN users THEN [status |-> 401, user |-> ""]
    ELSE IF ~users[v.payload.sub].is_active THEN [status |-> 403, user |-> ""]
    ELSE [status |-> 200, user |-> v.payload.sub]

\* the rows of the secrets table a step added, removed or changed
C24_Touched ==
    { id \in DOMAIN secrets \cup DOMAIN secrets' :
        \/ id \notin DOMAIN secrets \/ id \notin DOMAIN secrets'
        \/ secrets'[id] # secrets[id] }

\* C24: a request to /auth/me, /auth/change-password, /auth/logout or a
\* /secrets route is answered 401 without credentials, 401 for a token that
\* verify_access_token rejects, 401 when no user has the token's sub, 403
\* when that user is deactivated, in this order, and changes nothing; in the
\* remaining case the handler runs as the user whose id is the token's sub:
\* it answers for that user and touches only rows of that user.
C24_Step ==
    /\ (clock' = clock /\ <<users, issued, used, resp>>' # <<users, issued, used, resp>>) =>
          LET d == C24_Decision(resp'.req) IN
          IF d.status = 200
          THEN /\ resp'.user = d.user /\ resp'.status \in { 200, 400 }
               /\ \A id \in DOMAIN users \ {d.user} : users'[id] = users[id]
               /\ DOMAIN users' = DOMAIN users
          ELSE /\ resp'.status = d.status /\ resp'.user = ""
               /\ <<users, issued, used>>' = <<users, issued, used>>
    /\ vaultVars' # vaultVars =>
          LET d == C24_Decision(vault_req'.credentials) IN
          IF d.status = 200
          THEN /\ vault_resp'.status \in { 200, 201, 404 }
               /\ \A id \in C24_Touched :
                     /\ id \in DOMAIN secrets => secrets[id].user_id = d.user
                     /\ id \in DOMAIN secrets' => secrets'[id].user_id = d.user
               /\ \A item \in vault_resp'.body.items : secrets[item.id].user_id = d.user
          ELSE /\ vault_resp'.status = d.status /\ vault_resp'.body = NoBody
               /\ secrets' = secrets
C24_OnlyTheTokensUserActs == [][C24_Step]_vars

\* C24 witness: the expired access token of the deactivated user is answered
\* 401, not 403
C24_ExpiredTokenOfInactiveUser ==
    /\ resp.ep = "me" /\ resp.status = 401
    /\ resp.req = create_access_token("u2", 0)
    /\ clock > AccessTTLSeconds * TicksPerSecond
    /\ ~users["u2"].is_active

\* C25: every token the API issued has iat equal to the whole seconds of the
\* clock at its issue, exp exactly the configured lifetime after iat
\* (access_token_expire_minutes * 60 seconds for an access token,
\* refresh_token_expire_days * 86400 for a refresh token), type "access"
\* respectively "refresh", and sub equal to the user id it was made for.
C25_IssuedClaims ==
    \A e \in issued :
        LET c == e.token.claims
            ttl == IF e.fn = "access" THEN settings.access_token_expire_minutes * 60
                   ELSE settings.refresh_token_expire_days * 86400
        IN /\ e.fn \in { "access", "refresh" }
           /\ c.iat = [t |-> "int", i |-> e.now \div TicksPerSecond, s |-> ""]
           /\ c.exp.t = "int" /\ c.exp.i - c.iat.i = ttl
           /\ c.type = [t |-> "str", i |-> 0, s |-> e.fn]
           /\ c.sub = [t |-> "str", i |-> 0, s |-> e.sub]

\* C25 witness: a refresh token issued half a second after second 0 has iat 0
C25_IssuedWithinASecond ==
    \E e \in issued :
        /\ e.fn = "refresh" /\ e.now % TicksPerSecond # 0
        /\ e.token.claims.iat.i = e.now \div TicksPerSecond
        /\ e.token.claims.exp.i = e.token.claims.iat.i + 7 * 86400

\* C26: a step that issues tokens issues them for one user, who has a row
\* and is active, is answered 200, and is a login whose password that user's
\* stored hash verifies, or a refresh whose presented token
\* verify_refresh_token accepts with that same user as sub; a refresh whose
\* accepted token names a user without a row or a deactivated user is
\* answered 401 and issues nothing.
C26_Step ==
    LET new == issued' \ issued
        u == CHOOSE id \in { e.sub : e \in new } : TRUE
        presented == verify_refresh_token(resp'.req, clock)
    IN
    /\ new # {} =>
          /\ { e.sub : e \in new } = { u }
          /\ { e.fn : e \in new } \subseteq { "access", "refresh" }
          /\ \A e \in new : e.token.claims.sub = [t |-> "str", i |-> 0, s |-> u]
          /\ u \in DOMAIN users /\ users[u].is_active
          /\ resp'.status = 200 /\ resp'.user = u
          /\ \/ /\ resp'.ep = "login"
                /\ login_req'.calls[1] = "verify_password"
                /\ normalize_email(login_req'.email) = users[u].email
                /\ verify_password(login_req'.password, users[u].password_hash).value
             \/ /\ resp'.ep = "refresh"
                /\ presented.kind = "ok" /\ presented.payload.sub = u
    /\ (/\ resp'.ep = "refresh" /\ clock' = clock /\ resp' # resp
        /\ presented.kind = "ok"
        /\ \/ presented.payload.sub \notin DOMAIN users
           \/ ~users[presented.payload.sub].is_active)
       => resp'.status = 401 /\ issued' = issued
C26_TokensOnlyForTheVerifiedUser == [][C26_Step]_vars

\* C26 witness: the deactivated user's valid refresh token was answered 401
C26_InactiveRefreshRefused ==
    /\ resp.ep = "refresh" /\ resp.status = 401
    /\ resp.req = create_refresh_token("u2", 0)
    /\ verify_refresh_token(resp.req, clock).kind = "ok"
    /\ \A e \in issued : e.sub = "u1"
    /\ issued # {}

\* the statuses C27 is about
C27_Refused == { 400, 401, 403, 404, 422 }

\* C27: a request to the auth routes answered 400, 401, 403, 404 or 422
\* leaves the users table and the secrets table as they were (password_hash
\* and last_login_at of every row included), and so does a request to the
\* secrets routes answered with one of these statuses.
C27_Step ==
    /\ (vaultVars' = vaultVars /\ resp'.status \in C27_Refused) =>
          users' = users /\ secrets' = secrets
    /\ (authVars' = authVars /\ vault_resp'.status \in C27_Refused) =>
          users' = users /\ secrets' = secrets
C27_RefusedRequestsChangeNothing == [][C27_Step]_vars

\* C27 witness: after a login and a stored secret, a login with the wrong
\* password was answered 401 and the row still has the time of the last
\* successful login
C27_FailedLoginAfterLogin ==
    /\ resp.ep = "login" /\ resp.status = 401
    /\ users["u1"].last_login_at = 0
    /\ DOMAIN secrets # {}
    /\ vault_resp.status = 422

\* C28, in every state: two tokens issued for the same user and of the same
\* type within one clock second are the same token.
C28_State ==
    \A e1 \in issued, e2 \in issued :
        (/\ e1.sub = e2.sub /\ e1.fn = e2.fn
         /\ e1.now \div TicksPerSecond = e2.now \div TicksPerSecond)
        => e1.token = e2.token

\* C28, in every step: a refresh answered 200 in the clock second in which
\* the presented refresh token was issued issues that same refresh token.
C28_Step ==
    (/\ resp'.ep = "refresh" /\ resp'.status = 200 /\ clock' = clock
     /\ \E e \in issued : /\ e.token = resp'.req /\ e.fn = "refresh"
                          /\ e.now \div TicksPerSecond = clock \div TicksPerSecond)
    => \E e \in issued' : e.fn = "refresh" /\ e.now = clock /\ e.token = resp'.req
C28_IssuanceIsDeterministic == []C28_State /\ [][C28_Step]_vars

\* C28 witness: a refresh half a second after the login returned the refresh
\* token it was given
C28_SameTokenReturned ==
    /\ resp.ep = "refresh" /\ resp.status = 200
    /\ clock % TicksPerSecond # 0 /\ clock < TicksPerSecond
    /\ \E e1 \in issued, e2 \in issued :
          /\ e1.now = 0 /\ e2.now = clock
          /\ e1.fn = "refresh" /\ e2.fn = "refresh"
          /\ e1.token = resp.req /\ e2.token = resp.req

-----------------------------------------------------------------------------
(* create_tokens under every configuration the process can start with *)

\* the latest instant (ticks) at which a pair is issued
MaxIssueTicks == 4

\* ticks that pass between the two datetime.now(UTC) calls of one
\* create_tokens call
SampleGaps == 0 .. TicksPerSecond

\* the payloads of the pair create_tokens(user_id) returns under cfg
token_pair_claims(cfg, user_id, now1, now2) ==
    <<access_token_claims(cfg, user_id, now1), refresh_token_claims(cfg, user_id, now2)>>

\* a request handler of the running process calls create_tokens(user_id);
\* the settings object is the one get_settings() cached at start
IssueTokens ==
    /\ cfg_proc.state = "running"
    /\ \E user_id \in UserIds, gap \in SampleGaps :
          /\ clock + gap <= MaxIssueTicks
          /\ jwt_out' = [fn |-> "create_tokens", at |-> clock, kind |-> "ok", exc |-> "",
                         payload |-> token_pair_claims(cfg_cache.values, user_id,
                                                       clock, clock + gap)]
          /\ clock' = clock + gap
    /\ UNCHANGED <<users, issued, used, resp, jwt_in>>

\* the clock moves on between two requests
IssueTick ==
    /\ clock < MaxIssueTicks
    /\ clock' = clock + 1
    /\ UNCHANGED <<users, issued, used, resp, jwtVars>>

NextIssue ==
    \/ StartProcess /\ UNCHANGED <<authVars, jwtVars, cryptoVars, pwVars, login_req, regVars, vaultVars>>
    \/ IssueTokens /\ UNCHANGED <<cryptoVars, otherVars>>
    \/ IssueTick /\ UNCHANGED <<cryptoVars, otherVars>>

SpecIssue == InitCfg /\ [][NextIssue]_vars

\* C29: under every configuration that Settings accepts (and only under
\* such a configuration does the process run and issue), the access token of
\* every pair create_tokens returns expires strictly before the refresh
\* token of the pair, although the two read the clock one after the other.
C29_AccessExpiresBeforeRefresh ==
    jwt_out.fn = "create_tokens" =>
        /\ SettingsErrors(cfg_env) = {}
        /\ cfg_cache.values = cfg_env
        /\ jwt_out.payload[1].type = JStr("access")
        /\ jwt_out.payload[2].type = JStr("refresh")
        /\ jwt_out.payload[1].exp.i < jwt_out.payload[2].exp.i

\* a pair issued under the longest access and the shortest refresh lifetime,
\* its two clock readings falling in different seconds
C29_LongestAccessShortestRefresh ==
    /\ jwt_out.fn = "create_tokens"
    /\ cfg_env.access_token_expire_minutes = 60
    /\ cfg_env.refresh_token_expire_days = 1
    /\ jwt_out.payload[1].iat.i < jwt_out.payload[2].iat.i

\* the generic answer of register for an address that is taken
RegistrationFailed == "Registration failed. Please check your information."

\* C30: of two POST /auth/register requests for one (lowercased) e-mail,
\* however their lookups and commits interleave, the request that finds the
\* address taken - at its lookup or, both lookups having passed, at its
\* commit - creates no row and is answered 400 with the generic detail.
C30_Step ==
    (/\ reg_last'.step \in { "lookup", "commit" }
     /\ \E id \in DOMAIN users : users[id].email = Lowercased(reg_last'.email))
    => /\ users' = users
       /\ resp'.ep = "register"
       /\ resp'.status = 400
       /\ resp'.detail = RegistrationFailed

C30_RaceLoserAnswered400 == [][C30_Step]_vars

\* the part of C30 that the unique index on users.email gives: the request
\* that finds the address taken creates no row and is not answered 201, and
\* no two rows hold one e-mail
C30_LoserStep ==
    (/\ reg_last'.step \in { "lookup", "commit" }
     /\ \E id \in DOMAIN users : users[id].email = Lowercased(reg_last'.email))
    => /\ users' = users
       /\ resp'.ep = "register"
       /\ resp'.status \in { 400, 500 }

C30_AtMostOneRowPerEmail ==
    /\ [](\A a \in DOMAIN users, b \in DOMAIN users :
              users[a].email = users[b].email => a = b)
    /\ [][C30_LoserStep]_vars

\* both requests for "a@x" passed the lookup, one has committed and got its
\* row, the other has just been refused by the index at its commit
C30_SecondCommitRefused ==
    /\ reg_last = [email |-> <<97, 64, 120>>, step |-> "commit"]
    /\ resp.ep = "register" /\ resp.status = 500
    /\ \E id \in DOMAIN users : users[id].email = <<97, 64, 120>>

=============================================================================
